---- MODULE Spec2Model ----
(***************************************************************************)
(* Message dispatch and request lifecycle of ClangdLSPServer               *)
(* (clang-tools-extra/clangd/ClangdLSPServer.cpp, here src/unnamed/part_000)*)
(*                                                                         *)
(* The dispatch thread ("main") runs Transport::loop and calls             *)
(* MessageHandler::onNotify / onCall / onReply for one envelope at a time. *)
(* Worker threads run the callbacks that handlers hand to ClangdServer.    *)
(* Every thread has a stack of frames; the head frame is the statement the *)
(* thread executes next.  Mutexes are explicit: a lock_guard is one step   *)
(* that takes the mutex and one later step that gives it back.             *)
(* The model is of a release build: assert() compiles to nothing.          *)
(***************************************************************************)
EXTENDS Integers, Sequences, FiniteSets, TLC

\* ---------------------------------------------------------------- bounds
\* Inbound calls the client sends in one run of Spec.
MaxCalls == 2
\* Calls the client sends after initialize in one run of SpecOverlap.
MaxOverlap == 2
\* Calls the client sends in one run of SpecOut once the outbound registry
\* is one entry short of full.
TailCalls == 2
\* Times ClangdServer may invoke one callback it was given (1 is correct use).
MaxInvoke == 2

\* ------------------------------------------------------- program constants
\* static constexpr int MaxReplayCallbacks = 100;
MaxReplayCallbacks == 100
\* unsigned NextRequestCookie: arithmetic modulo 2^32.  A cookie is kept as
\* two 16-bit halves, so that no number of the model exceeds 2^31.
HalfModulus == 65536
Cookie0 == [hi |-> 0, lo |-> 0]
\* NextRequestCookie++ : the value after the increment.
CookieInc(c) ==
  IF c.lo = HalfModulus - 1
  THEN [hi |-> (c.hi + 1) % HalfModulus, lo |-> 0]
  ELSE [hi |-> c.hi, lo |-> c.lo + 1]

\* The cookie after d more increments.
CookieAdd(c, d) ==
  LET lo == c.lo + d.lo
  IN [hi |-> (c.hi + d.hi + (lo \div HalfModulus)) % HalfModulus,
      lo |-> lo % HalfModulus]
\* 2^32 - 1 increments: one short of a full turn of the counter.
BurstCalls == [hi |-> HalfModulus - 1, lo |-> HalfModulus - 1]

\* int NextCallID: the largest int, and NextCallID++ where it does not
\* overflow or where the build lets it wrap round to the smallest.
INT_MAX == 2147483647
IntInc(n) == IF n = INT_MAX THEN (-INT_MAX) - 1 ELSE n + 1

\* ------------------------------------------------------------- JSON values
\* llvm::json::Value restricted to what an id can be: an integer or a string.
JInt(n) == [kind |-> "int", n |-> n, s |-> ""]
JStr(s) == [kind |-> "str", n |-> 0, s |-> s]

DigitStr == <<"0", "1", "2", "3", "4", "5", "6", "7", "8", "9">>

RECURSIVE NatToStr(_)
NatToStr(n) ==
  IF n < 10 THEN DigitStr[n + 1]
  ELSE NatToStr(n \div 10) \o DigitStr[(n % 10) + 1]

to_stringUnquoted(V) ==
  IF V.kind = "int" THEN NatToStr(V.n) ELSE V.s

\* llvm::to_string(json::Value): the JSON serialization, so a string keeps
\* its quotes and an integer is its digits.
to_string(V) ==
  IF V.kind = "int" THEN NatToStr(V.n) ELSE "\"" \o V.s \o "\""

\* ----------------------------------------------------------- llvm::Optional
\* An Optional<T> is the set of the values it holds: none or one.
None == {}
Some(x) == {x}
\* operator*
Value(o) == CHOOSE x \in o : TRUE
\* Optional::getValueOr
getValueOr(o, d) == IF o = None THEN d ELSE Value(o)

\* ------------------------------------------------------------ OffsetEncoding
\* OffsetEncoding::UTF8, UTF16, UTF32, and UnsupportedEncoding, which is what
\* fromJSON makes of a name it does not know.
OffsetEncodings == {"utf-8", "utf-16", "utf-32"}
UnsupportedEncoding == "unsupported"
\* Length of the longest capabilities.offsetEncoding a client sends.
MaxEncodings == 2
EncodingLists ==
  UNION {[1..n -> OffsetEncodings \cup {UnsupportedEncoding}] :
           n \in 0..MaxEncodings}

\* InitializeParams, as far as onInitialize reads them before it tests
\* Server.  A URIForFile is the path of its file; it is false when that path
\* is empty.
InitializeParams ==
  [offsetEncoding : {None} \cup {Some(l) : l \in EncodingLists},
   SemanticHighlighting : BOOLEAN,
   rootUri : {None, Some(""), Some("/u")},
   rootPath : {None, Some(""), Some("/p")}]
\* The params of a client that states no capabilities and no root.
PlainParams ==
  [offsetEncoding |-> None, SemanticHighlighting |-> FALSE,
   rootUri |-> None, rootPath |-> None]

\* ------------------------------------------------------------------ threads
Workers == {"w1", "w2"}
Threads == {"main"} \cup Workers
NoThread == "none"

\* ------------------------------------------------------------------ methods
\* Methods a client may name.  "no/such" is bound to nothing.
CallMethods ==
  {"initialize", "shutdown", "textDocument/hover",
   "workspace/executeCommand", "no/such"}
\* The keys of the Calls table after the constructor has run.
BoundCalls ==
  {"initialize", "shutdown", "textDocument/hover", "workspace/executeCommand"}
\* The keys of the Notifications table after the constructor has run.
BoundNotifications == {"textDocument/didOpen"}
NotifyMethods ==
  {"exit", "$/cancelRequest", "textDocument/didOpen", "no/such"}
\* What a decoded workspace/executeCommand asks for.
Commands == {"applyFix", "applyTweak", "tweakNoDraft", "unsupported"}
\* Ids the client uses for its calls and names in $/cancelRequest.
InboundIDs == {JInt(1), JStr("1")}

\* ------------------------------------------------------------------ results
Res(code, msg, ref) == [code |-> code, msg |-> msg, ref |-> ref]
NoRes == Res("", "", -1)
Ok == Res("ok", "", -1)
LSPError(msg, code) == Res(code, msg, -1)

\* Where a ReplyOnce object of a call can live.
\*   onCall : the local variable Reply of onCall
\*   bound  : the by-value parameter of the lambda bind() stores
\*   engine : captured by a callback handed to ClangdServer
\*   cont   : captured by a continuation handed to callRaw
\*   cb     : the Callback<> parameter of the server method
Locs == {"onCall", "bound", "cb", "engine", "cont"}
NoObj == [live |-> FALSE, Server |-> FALSE, Replied |-> FALSE]

VARIABLES
  stack,                  \* thread -> sequence of frames, head executes next
  TranspWriter,           \* std::mutex: the thread that holds it, or NoThread
  CallMutex,              \* std::mutex
  RequestCancelersMutex,  \* std::mutex
  Server,                 \* llvm::Optional<ClangdServer> has a value
  IsBeingDestroyed,       \* ClangdLSPServer::IsBeingDestroyed
  NegotiatedOffsetEncoding, \* llvm::Optional<OffsetEncoding>
  ClangdServerOpts,       \* ClangdServer::Options: the two fields that
                          \* onInitialize assigns
  ShutdownRequestReceived,
  CleanExit,              \* run(): the local CleanExit
  calls,                  \* inbound calls in ingress order, with their objects
  RequestCancelers,       \* StringMap: key -> [task, cookie]
  NextRequestCookie,
  cancelled,              \* calls whose Canceler has been invoked
  ReplyCallbacks,         \* std::deque of [id, k]: k is the call whose
                          \* ReplyOnce the continuation owns
  NextCallID,
  wire,                   \* frames written to the Transport, in order
  handled,                \* notification methods whose handler has run
  logged,                 \* what onNotify has written to the log
  HandlerContext          \* kCurrentOffsetEncoding in the Context that the
                          \* dispatch thread derived for the latest envelope

vars ==
  <<stack, TranspWriter, CallMutex, RequestCancelersMutex, Server,
    IsBeingDestroyed, NegotiatedOffsetEncoding, ClangdServerOpts,
    ShutdownRequestReceived, CleanExit, calls,
    RequestCancelers, NextRequestCookie, cancelled, ReplyCallbacks,
    NextCallID, wire, handled, logged, HandlerContext>>

negotiatedVars == <<NegotiatedOffsetEncoding, ClangdServerOpts>>
endpointVars ==
  <<Server, IsBeingDestroyed, ShutdownRequestReceived, CleanExit,
    negotiatedVars>>
cancelVars == <<RequestCancelers, NextRequestCookie, cancelled>>
outVars == <<ReplyCallbacks, NextCallID>>

\* ------------------------------------------------------------------- frames
NoOld == [id |-> -1, k |-> 0]
Frame(pc, k, loc, res) ==
  [pc |-> pc, k |-> k, loc |-> loc, res |-> res, n |-> -1, old |-> NoOld]
F(pc) == Frame(pc, 0, "", NoRes)

Top(t) == Head(stack[t])
AtPc(t, p) == stack[t] /= <<>> /\ Top(t).pc = p
\* The thread replaces its head frame by the frames fs.
Continue(t, fs) == stack' = [stack EXCEPT ![t] = fs \o Tail(stack[t])]
Return(t) == Continue(t, <<>>)

\* Reply(R) on the object at loc of call k, then whatever follows.
CallReply(k, loc, res) == <<Frame("reply", k, loc, res)>>
\* The destructor of the object at loc of call k.
CallDtor(k, loc) == <<Frame("dtor", k, loc, NoRes)>>

\* ------------------------------------------------------------ StringMap
EmptyMap == [x \in {} |-> 0]
MapPut(m, key, v) ==
  [x \in DOMAIN m \cup {key} |-> IF x = key THEN v ELSE m[x]]
MapErase(m, key) == [x \in DOMAIN m \ {key} |-> m[x]]

\* ------------------------------------------------------------ call records
\* handlerContext(): Context::current().derive(kCurrentOffsetEncoding,
\*   Server.NegotiatedOffsetEncoding.getValueOr(OffsetEncoding::UTF16))
handlerContext == Some(getValueOr(NegotiatedOffsetEncoding, "utf-16"))

\* One inbound call: what the client sent, the cookie of its registration,
\* its ReplyOnce objects, the holders of its cancelable Context, and the
\* ClangdServer task that owns its callback.
NewCall(ID, Method, Decodes, Cmd, Params, Cookie) ==
  [id |-> ID, method |-> Method, decodes |-> Decodes, cmd |-> Cmd,
   params |-> Params,    \* the decoded InitializeParams, until the handler
                         \* has returned
   context |-> handlerContext,  \* kCurrentOffsetEncoding in HandlerContext
   cookie |-> Cookie,
   obj |-> [l \in Locs |-> NoObj],
   ctx |-> {"onCall"},
   gate |-> "",          \* "rejected", "handler" or "notfound"
   serverAt |-> FALSE,   \* Server had a value when the gate was passed
   emplaced |-> FALSE,   \* the handler of this call ran Server.emplace(...)
   task |-> "none",      \* "none", "pending", "ended"
   taskInv |-> 0,        \* callback invocations started
   taskRun |-> 0,        \* callback invocations in progress
   endedIn |-> "",       \* where run() was when the task ended:
                         \* "loop" (in Transp.loop) or "teardown" (after it)
   outID |-> -1,         \* id of the outbound call whose continuation
                         \* captured the ReplyOnce
   cont |-> "none",      \* that continuation: "none", "stored" (in
                         \* ReplyCallbacks), "claimed" (by a client reply),
                         \* "evicted", "dropped" (destroyed with the server)
   evictedBy |-> -1,     \* id of the outbound call whose registration
                         \* evicted that continuation
   contInv |-> 0]        \* times that continuation has been invoked

Obj(k, loc) == calls[k].obj[loc]

MoveKeepsServer(c, from, to) ==
  [c EXCEPT !.obj[to] = [live |-> TRUE, Server |-> c.obj[from].Server,
                         Replied |-> c.obj[from].Replied]]

\* ReplyOnce(ReplyOnce &&Other)
MoveObj(c, from, to) ==
  [c EXCEPT !.obj[to] = [live |-> TRUE, Server |-> c.obj[from].Server,
                         Replied |-> c.obj[from].Replied],
            !.obj[from].Server = FALSE]

\* Transp.reply / Transp.call / Transp.notify: one frame on the wire.
ReplyFrame(k, res) == [type |-> "reply", id |-> calls[k].id, k |-> k, res |-> res]
CallFrameWithoutID(n) ==
  [type |-> "call", id |-> JInt(0), k |-> 0, res |-> NoRes]

CallFrame(n) == [type |-> "call", id |-> JInt(n), k |-> 0, res |-> NoRes]
NotifyFrame == [type |-> "notify", id |-> JInt(0), k |-> 0, res |-> NoRes]

\* ------------------------------------------------------------- ReplyOnce
DtorSkipsOwnerTest(o) == ~IsBeingDestroyed /\ ~o.Replied

DtorRepliesAgain(o) == o.Server /\ ~IsBeingDestroyed /\ o.Replied

\* ~ReplyOnce: if (Server && !Server->IsBeingDestroyed && !Replied)
DtorMustReply(o) == o.Server /\ ~IsBeingDestroyed /\ ~o.Replied

ServerFailedToReply == LSPError("server failed to reply", "InternalError")

\* Steps that touch nothing another thread can see are taken together with
\* the step before them: Settle runs the frames at the head of a thread's
\* stack for as long as they are such steps.
\*   dtor         : ~ReplyOnce; it ends at once, or goes on to
\*                  (*this)(error "server failed to reply")
\*   dtor_end     : the rest of ~ReplyOnce after that reply
\*   callback_end : a callback of ClangdServer has returned
RECURSIVE Settle(_, _)
Settle(cs, fs) ==
  IF fs = <<>> THEN [cs |-> cs, fs |-> fs]
  ELSE LET f == Head(fs)
       IN CASE f.pc = "dtor" ->
                 IF DtorMustReply(cs[f.k].obj[f.loc])
                 THEN [cs |-> cs,
                       fs |-> CallReply(f.k, f.loc, ServerFailedToReply)
                              \o <<[f EXCEPT !.pc = "dtor_end"]>> \o Tail(fs)]
                 ELSE Settle([cs EXCEPT ![f.k].obj[f.loc] = NoObj], Tail(fs))
            [] f.pc = "dtor_end" ->
                 Settle([cs EXCEPT ![f.k].obj[f.loc] = NoObj], Tail(fs))
            [] f.pc = "callback_end" ->
                 Settle([cs EXCEPT ![f.k].taskRun = @ - 1], Tail(fs))
            [] OTHER -> [cs |-> cs, fs |-> fs]

\* Thread t goes on with the frames fs in place of its head frame, the calls
\* being cs.
Go(t, cs, fs) ==
  LET r == Settle(cs, fs \o Tail(stack[t]))
  IN /\ calls' = r.cs
     /\ stack' = [stack EXCEPT ![t] = r.fs]
\* Thread t, which was idle, starts on the frames fs.
Start(t, cs, fs) ==
  LET r == Settle(cs, fs)
  IN /\ calls' = r.cs
     /\ stack' = [stack EXCEPT ![t] = r.fs]

ExchangeLoadsStale(o) == FALSE

\* Replied.exchange(true): the value it returns.
Exchange(o) == o.Replied

\* operator(): if (Replied.exchange(true)) return;
ReplyExchange(t) ==
  /\ AtPc(t, "reply")
  /\ LET f == Top(t)
         cs == [calls EXCEPT ![f.k].obj[f.loc].Replied = TRUE]
     IN IF Exchange(Obj(f.k, f.loc))
        THEN Go(t, cs, <<>>)
        ELSE Go(t, cs, <<[f EXCEPT !.pc = "reply_lock"]>>)
  /\ UNCHANGED <<TranspWriter, CallMutex, RequestCancelersMutex,
                 endpointVars, cancelVars, outVars, wire, handled, logged, HandlerContext>>

ReplyWithoutLock(t) ==
  /\ AtPc(t, "reply_lock")
  /\ Continue(t, <<[Top(t) EXCEPT !.pc = "reply_write"]>>)
  /\ UNCHANGED <<TranspWriter, CallMutex, RequestCancelersMutex,
                 endpointVars, calls, cancelVars, outVars, wire, handled,
                 logged, HandlerContext>>

\* std::lock_guard<std::mutex> Lock(Server->TranspWriter);
ReplyLock(t) ==
  /\ AtPc(t, "reply_lock")
  /\ TranspWriter = NoThread
  /\ TranspWriter' = t
  /\ Continue(t, <<[Top(t) EXCEPT !.pc = "reply_write"]>>)
  /\ UNCHANGED <<CallMutex, RequestCancelersMutex, endpointVars, calls,
                 cancelVars, outVars, wire, handled, logged, HandlerContext>>

\* Server->Transp.reply(std::move(ID), ...); the lock_guard ends with the block.
ReplyWrite(t) ==
  /\ AtPc(t, "reply_write")
  /\ wire' = Append(wire, ReplyFrame(Top(t).k, Top(t).res))
  /\ TranspWriter' = NoThread
  /\ Go(t, calls, <<>>)
  /\ UNCHANGED <<CallMutex, RequestCancelersMutex, endpointVars,
                 cancelVars, outVars, handled, logged, HandlerContext>>

\* ------------------------------------------------------------- onCall
\* What the client can send as a call: params that do not decode matter
\* only for a bound method, a command only for a decoded executeCommand.
\* Params of initialize are those of PlainParams.
CallInputs ==
  {in \in [id : InboundIDs, method : CallMethods, decodes : BOOLEAN,
           cmd : Commands \cup {"none"},
           params : {None, Some(PlainParams)}] :
     /\ (in.method \notin BoundCalls => in.decodes)
     /\ (in.cmd /= "none") <=>
          (in.method = "workspace/executeCommand" /\ in.decodes)
     /\ (in.params /= None) <=> (in.method = "initialize" /\ in.decodes)}

onCallUnregistered(ID, Method, Decodes, Cmd, Params) ==
  /\ AtPc("main", "loop")
  /\ RequestCancelersMutex = NoThread
  /\ LET k == Len(calls) + 1
         Cookie == NextRequestCookie
     IN /\ NextRequestCookie' = CookieInc(NextRequestCookie)
        /\ RequestCancelersMutex' = "main"
        /\ RequestCancelers' = RequestCancelers
        /\ calls' = Append(calls, NewCall(ID, Method, Decodes, Cmd, Params, Cookie))
        /\ Continue("main", <<Frame("onCall", k, "onCall", NoRes), F("loop")>>)
  /\ HandlerContext' = handlerContext
  /\ UNCHANGED <<TranspWriter, CallMutex, endpointVars, cancelled, outVars,
                 wire, handled, logged>>

onCallDeferred(ID, Method, Decodes, Cmd, Params) ==
  /\ AtPc("main", "loop")
  /\ RequestCancelersMutex = NoThread
  /\ LET k == Len(calls) + 1
         Cookie == NextRequestCookie
     IN /\ NextRequestCookie' = CookieInc(NextRequestCookie)
        /\ RequestCancelersMutex' = "main"
        /\ RequestCancelers' =
             MapPut(RequestCancelers, to_string(ID),
                    [task |-> k, cookie |-> Cookie])
        /\ calls' = Append(calls, NewCall(ID, Method, Decodes, Cmd, Params, Cookie))
        /\ Continue("main", <<F("loop"), Frame("onCall", k, "onCall", NoRes)>>)
  /\ HandlerContext' = handlerContext
  /\ UNCHANGED <<TranspWriter, CallMutex, endpointVars, cancelled, outVars,
                 wire, handled, logged>>

\* onCall, up to and including the insertion in cancelableRequestContext:
\*   auto Cookie = NextRequestCookie++;
\*   { lock_guard Lock(RequestCancelersMutex);
\*     RequestCancelers[StrID] = {std::move(Task.second), Cookie};
onCall(ID, Method, Decodes, Cmd, Params) ==
  /\ AtPc("main", "loop")
  /\ RequestCancelersMutex = NoThread
  /\ LET k == Len(calls) + 1
         Cookie == NextRequestCookie
     IN /\ NextRequestCookie' = CookieInc(NextRequestCookie)
        /\ RequestCancelersMutex' = "main"
        /\ RequestCancelers' =
             MapPut(RequestCancelers, to_string(ID),
                    [task |-> k, cookie |-> Cookie])
        /\ calls' = Append(calls, NewCall(ID, Method, Decodes, Cmd, Params, Cookie))
        /\ Continue("main", <<Frame("onCall", k, "onCall", NoRes), F("loop")>>)
  /\ HandlerContext' = handlerContext
  /\ UNCHANGED <<TranspWriter, CallMutex, endpointVars, cancelled, outVars,
                 wire, handled, logged>>

GateInverted(Method) == Server /\ Method /= "initialize"

\* if (!Server.Server && Method != "initialize")
GateRejects(Method) == ~Server /\ Method /= "initialize"
LookupFindsAny(Method) == TRUE

\* Calls.lookup(Method)
LookupCall(Method) == Method \in BoundCalls

NotInitialized == LSPError("server not initialized", "ServerNotInitialized")
MethodNotFound == LSPError("method not found", "MethodNotFound")
DecodeFailed == LSPError("failed to decode request", "InvalidRequest")
AlreadyInitialized == LSPError("server already initialized", "InvalidRequest")
NonAddedFile ==
  Res("Unknown", "trying to apply a code action for a non-added file", -1)
UnsupportedCommand == LSPError("Unsupported command", "InvalidParams")

ResultIgnored(ParamsOk) == TRUE

\* fromJSON(RawParams, P) in the lambdas of bind: whether the params decode.
fromJSON(ParamsOk) == ParamsOk

\* What a server method leaves behind when it returns or reaches its first
\* step that other threads can see: the call record, the frames the dispatch
\* thread goes on with, and the endpoint's flags.
Effect(c, fs, server, shutdown) ==
  [c |-> c, fs |-> fs, server |-> server, shutdown |-> shutdown,
   encoding |-> NegotiatedOffsetEncoding, opts |-> ClangdServerOpts]

ToEngineWithoutContext(c) ==
  [MoveObj(c, "cb", "engine") EXCEPT !.task = "pending"]

\* A handler that passes Reply on to ClangdServer: the callback, and with it
\* the Context of the request, now belongs to a task of the engine.
ToEngine(c) ==
  [MoveObj(c, "cb", "engine") EXCEPT !.task = "pending",
                                      !.ctx = @ \cup {"engine"}]

onInitializeWithoutServer(k, c) ==
  IF Server
  THEN Effect(c, CallReply(k, "cb", AlreadyInitialized), Server,
              ShutdownRequestReceived)
  ELSE Effect([c EXCEPT !.emplaced = TRUE], CallReply(k, "cb", Ok), Server,
              ShutdownRequestReceived)

onInitializeAgain(k, c) ==
  Effect([c EXCEPT !.emplaced = TRUE], CallReply(k, "cb", Ok), TRUE,
         ShutdownRequestReceived)

\* for (OffsetEncoding Supported : *Params.capabilities.offsetEncoding)
\*   if (Supported != OffsetEncoding::UnsupportedEncoding) { ...; break; }
RECURSIVE FirstSupported(_)
FirstSupported(l) ==
  IF l = <<>> THEN None
  ELSE IF Head(l) /= UnsupportedEncoding THEN Some(Head(l))
  ELSE FirstSupported(Tail(l))

NegotiateOverrides(P) ==
  IF P.offsetEncoding /= None
  THEN Some(getValueOr(FirstSupported(Value(P.offsetEncoding)), "utf-16"))
  ELSE NegotiatedOffsetEncoding

\* onInitialize: NegotiatedOffsetEncoding after
\*   if (Params.capabilities.offsetEncoding && !NegotiatedOffsetEncoding) {
\*     NegotiatedOffsetEncoding = OffsetEncoding::UTF16; // fallback
\*     for ... }
Negotiate(P) ==
  IF P.offsetEncoding /= None /\ NegotiatedOffsetEncoding = None
  THEN Some(getValueOr(FirstSupported(Value(P.offsetEncoding)), "utf-16"))
  ELSE NegotiatedOffsetEncoding

\* onInitialize: ClangdServerOpts after
\*   ClangdServerOpts.SemanticHighlighting = ...;
\*   if (Params.rootUri && *Params.rootUri) ... WorkspaceRoot = ...
\*   else if (Params.rootPath && !Params.rootPath->empty()) ...
Options(P) ==
  [SemanticHighlighting |-> P.SemanticHighlighting,
   WorkspaceRoot |->
     IF P.rootUri /= None /\ Value(P.rootUri) /= ""
     THEN Some(Value(P.rootUri))
     ELSE IF P.rootPath /= None /\ Value(P.rootPath) /= ""
     THEN Some(Value(P.rootPath))
     ELSE ClangdServerOpts.WorkspaceRoot]

\* onInitialize: the encoding and the options are settled first; then
\* if (Server) return Reply("server already initialized");
\* Server.emplace(...); ... Reply(std::move(Result));
\* Params belongs to the lambda of bind and ends with it; it is the Param P
\* that bind constructs and fromJSON fills.
onInitialize(k, c) ==
  LET P == getValueOr(c.params, PlainParams)
      d == [c EXCEPT !.params = None]
      e == IF Server
           THEN Effect(d, CallReply(k, "cb", AlreadyInitialized), Server,
                       ShutdownRequestReceived)
           ELSE Effect([d EXCEPT !.emplaced = TRUE], CallReply(k, "cb", Ok),
                       TRUE, ShutdownRequestReceived)
  IN [e EXCEPT !.encoding = Negotiate(P), !.opts = Options(P)]

\* onShutdown: ShutdownRequestReceived = true; Reply(nullptr);
onShutdown(k, c) == Effect(c, CallReply(k, "cb", Ok), Server, TRUE)

\* onHover: Server->findHover(File, Pos, [Reply = std::move(Reply), this]...)
onHover(k, c) == Effect(ToEngine(c), <<>>, Server, ShutdownRequestReceived)

onCommandSilent(k, c) ==
  CASE c.cmd = "applyFix" ->
         \* ApplyEdit(*Params.workspaceEdit, "Fix applied.", std::move(Reply))
         Effect(MoveObj(c, "cb", "cont"),
                <<Frame("bindReply", k, "cont", NoRes)>>,
                Server, ShutdownRequestReceived)
    [] c.cmd = "applyTweak" ->
         \* Server->applyTweak(..., std::move(Action))
         Effect(ToEngine(c), <<>>, Server, ShutdownRequestReceived)
    [] c.cmd = "tweakNoDraft" ->
         Effect(c, CallReply(k, "cb", NonAddedFile), Server,
                ShutdownRequestReceived)
    [] OTHER -> Effect(c, <<>>, Server, ShutdownRequestReceived)

\* onCommand
onCommand(k, c) ==
  CASE c.cmd = "applyFix" ->
         \* ApplyEdit(*Params.workspaceEdit, "Fix applied.", std::move(Reply))
         Effect(MoveObj(c, "cb", "cont"),
                <<Frame("bindReply", k, "cont", NoRes)>>,
                Server, ShutdownRequestReceived)
    [] c.cmd = "applyTweak" ->
         \* Server->applyTweak(..., std::move(Action))
         Effect(ToEngine(c), <<>>, Server, ShutdownRequestReceived)
    [] c.cmd = "tweakNoDraft" ->
         Effect(c, CallReply(k, "cb", NonAddedFile), Server,
                ShutdownRequestReceived)
    [] OTHER ->
         Effect(c, CallReply(k, "cb", UnsupportedCommand), Server,
                ShutdownRequestReceived)

BoundCallEmplacesUndecoded(k, c) ==
  IF fromJSON(c.decodes)
  THEN LET m == MoveObj(c, "bound", "cb")
           e == CASE c.method = "initialize" -> onInitialize(k, m)
                  [] c.method = "shutdown" -> onShutdown(k, m)
                  [] c.method = "textDocument/hover" -> onHover(k, m)
                  [] OTHER -> onCommand(k, m)
       IN [e EXCEPT !.fs = @ \o CallDtor(k, "cb")]
  ELSE Effect(c, CallReply(k, "bound", DecodeFailed),
              Server \/ c.method = "initialize", ShutdownRequestReceived)

\* The lambda bind() stores in Calls for Method: decode, then the server
\* method with Reply moved into its Callback<>, or
\* Reply("failed to decode request").
BoundCall(k, c) ==
  IF fromJSON(c.decodes)
  THEN LET m == MoveObj(c, "bound", "cb")
           e == CASE c.method = "initialize" -> onInitialize(k, m)
                  [] c.method = "shutdown" -> onShutdown(k, m)
                  [] c.method = "textDocument/hover" -> onHover(k, m)
                  [] OTHER -> onCommand(k, m)
       IN [e EXCEPT !.fs = @ \o CallDtor(k, "cb")]
  ELSE Effect(c, CallReply(k, "bound", DecodeFailed), Server,
              ShutdownRequestReceived)

\* What onCall does when its handler or Reply(...) has returned: ~Reply,
\* then WithCancel goes out of scope.
AfterOnCall(k) ==
  CallDtor(k, "onCall") \o <<Frame("ctx_exit", k, "onCall", NoRes)>>

\* onCall from ReplyOnce Reply(...) on: the initialization gate and the
\* handler table decide what runs.
Dispatch(k, c0) ==
  LET c == [c0 EXCEPT
              !.obj["onCall"] =
                 [live |-> TRUE, Server |-> TRUE, Replied |-> FALSE],
              !.serverAt = Server]
  IN IF GateRejects(c.method)
     THEN Effect([c EXCEPT !.gate = "rejected"],
                 CallReply(k, "onCall", NotInitialized) \o AfterOnCall(k),
                 Server, ShutdownRequestReceived)
     ELSE IF LookupCall(c.method)
     THEN LET e == BoundCall(k, MoveObj([c EXCEPT !.gate = "handler"],
                                        "onCall", "bound"))
          IN [e EXCEPT !.fs = @ \o CallDtor(k, "bound") \o AfterOnCall(k)]
     ELSE Effect([c EXCEPT !.gate = "notfound"],
                 CallReply(k, "onCall", MethodNotFound) \o AfterOnCall(k),
                 Server, ShutdownRequestReceived)

\* onCall, from the end of cancelableRequestContext's locked block.
onCallDispatch ==
  /\ AtPc("main", "onCall")
  /\ RequestCancelersMutex = "main"
  /\ RequestCancelersMutex' = NoThread
  /\ LET k == Top("main").k
         e == Dispatch(k, calls[k])
     IN /\ Go("main", [calls EXCEPT ![k] = e.c], e.fs)
        /\ Server' = e.server
        /\ ShutdownRequestReceived' = e.shutdown
        /\ NegotiatedOffsetEncoding' = e.encoding
        /\ ClangdServerOpts' = e.opts
  /\ UNCHANGED <<TranspWriter, CallMutex, IsBeingDestroyed, CleanExit,
                 cancelVars, outVars, wire, handled, logged, HandlerContext>>

\* ------------------------------------------------- cancelableRequestContext
CleanupIgnoresCookie(StrID, Cookie) == StrID \in DOMAIN RequestCancelers

\* if (It != RequestCancelers.end() && It->second.second == Cookie)
CleanupErases(StrID, Cookie) ==
  StrID \in DOMAIN RequestCancelers /\ RequestCancelers[StrID].cookie = Cookie

\* A holder lets go of the Context of call k.  The last one runs the
\* scope_exit of cancelableRequestContext: lock, find, erase if the cookie
\* is still this registration's.
ContextExit(t) ==
  /\ AtPc(t, "ctx_exit")
  /\ LET f == Top(t)
         c == calls[f.k]
         StrID == to_string(c.id)
     IN /\ calls' = [calls EXCEPT ![f.k].ctx = @ \ {f.loc}]
        /\ IF c.ctx = {f.loc}
           THEN /\ RequestCancelersMutex = NoThread
                /\ RequestCancelersMutex' = t
                /\ RequestCancelers' =
                     IF CleanupErases(StrID, c.cookie)
                     THEN MapErase(RequestCancelers, StrID)
                     ELSE RequestCancelers
                /\ Continue(t, <<[f EXCEPT !.pc = "cleanup_unlock"]>>)
           ELSE /\ Return(t)
                /\ UNCHANGED <<RequestCancelersMutex, RequestCancelers>>
  /\ UNCHANGED <<TranspWriter, CallMutex, endpointVars, NextRequestCookie,
                 cancelled, outVars, wire, handled, logged, HandlerContext>>

\* The lock_guard of the scope_exit ends.
CleanupUnlock(t) ==
  /\ AtPc(t, "cleanup_unlock")
  /\ RequestCancelersMutex' = NoThread
  /\ Return(t)
  /\ UNCHANGED <<TranspWriter, CallMutex, endpointVars, calls,
                 RequestCancelers, NextRequestCookie, cancelled, outVars,
                 wire, handled, logged, HandlerContext>>

\* ------------------------------------------------------ bindReply, callRaw
OverflowsOffByOne(cbs) == Len(cbs) > MaxReplayCallbacks + 1

\* if (ReplyCallbacks.size() > MaxReplayCallbacks)
Overflows(cbs) == Len(cbs) > MaxReplayCallbacks

\* "failed to receive a client reply for request ({0})", OldestCB->first
NoClientReply(n) ==
  Res("Unknown", "failed to receive a client reply for request", n)

\* The continuation ApplyEdit hands to call<>(): every path ends in Reply(..)
\* on the ReplyOnce the continuation captured.
ContInvoke(k, res) == CallReply(k, "cont", res)

EvictNewest(cbs) ==
  [old |-> cbs[Len(cbs)], rest |-> SubSeq(cbs, 1, Len(cbs) - 1)]

\* OldestCB = std::move(ReplyCallbacks.front()); ReplyCallbacks.pop_front();
Evict(cbs) == [old |-> Head(cbs), rest |-> Tail(cbs)]

bindReplyKeepsID(t) ==
  /\ AtPc(t, "bindReply")
  /\ CallMutex = NoThread
  /\ CallMutex' = t
  /\ LET f == Top(t)
         ID == NextCallID
         pushed == Append(ReplyCallbacks, [id |-> ID, k |-> f.k])
         e == IF Overflows(pushed) THEN Evict(pushed)
              ELSE [old |-> NoOld, rest |-> pushed]
         cs == [calls EXCEPT ![f.k].cont = "stored", ![f.k].outID = ID]
     IN /\ NextCallID' = ID
        /\ ReplyCallbacks' = e.rest
        /\ calls' = IF e.old = NoOld THEN cs
                    ELSE [cs EXCEPT ![e.old.k].cont = "evicted",
                                    ![e.old.k].evictedBy = ID]
        /\ Continue(t, <<[f EXCEPT !.pc = "bind_unlock", !.n = ID,
                                   !.old = e.old]>>)
  /\ UNCHANGED <<TranspWriter, RequestCancelersMutex, endpointVars,
                 cancelVars, wire, handled, logged, HandlerContext>>


\* bindReply, the block under CallMutex.  ID = NextCallID++ overflows when
\* NextCallID is INT_MAX, which is undefined: the build either lets the int
\* wrap round or (-ftrapv) ends the process there.
bindReply(t) ==
  /\ AtPc(t, "bindReply")
  /\ CallMutex = NoThread
  /\ \/ LET f == Top(t)
            ID == NextCallID
            pushed == Append(ReplyCallbacks, [id |-> ID, k |-> f.k])
            e == IF Overflows(pushed) THEN Evict(pushed)
                 ELSE [old |-> NoOld, rest |-> pushed]
            cs == [calls EXCEPT ![f.k].cont = "stored", ![f.k].outID = ID]
        IN /\ CallMutex' = t
           /\ NextCallID' = IntInc(ID)
           /\ ReplyCallbacks' = e.rest
           /\ calls' = IF e.old = NoOld THEN cs
                       ELSE [cs EXCEPT ![e.old.k].cont = "evicted",
                                       ![e.old.k].evictedBy = ID]
           /\ Continue(t, <<[f EXCEPT !.pc = "bind_unlock", !.n = ID,
                                      !.old = e.old]>>)
     \/ /\ NextCallID = INT_MAX
        /\ stack' = [u \in Threads |-> <<F("trapped")>>]
        /\ UNCHANGED <<CallMutex, outVars, calls>>
  /\ UNCHANGED <<TranspWriter, RequestCancelersMutex, endpointVars,
                 cancelVars, wire, handled, logged, HandlerContext>>

bindReplyInvokesLocked(t) ==
  /\ AtPc(t, "bind_unlock")
  /\ LET f == Top(t)
         write == <<[f EXCEPT !.pc = "call_lock", !.old = NoOld]>>
     IN IF f.old /= NoOld
        THEN /\ calls' = [calls EXCEPT ![f.old.k].contInv = @ + 1]
             /\ Continue(t, ContInvoke(f.old.k, NoClientReply(f.old.id))
                            \o CallDtor(f.old.k, "cont") \o write)
             /\ UNCHANGED CallMutex
        ELSE /\ Continue(t, write)
             /\ CallMutex' = NoThread
             /\ UNCHANGED calls
  /\ UNCHANGED <<TranspWriter, RequestCancelersMutex, endpointVars,
                 cancelVars, outVars, wire, handled, logged, HandlerContext>>

bindReplyWritesFirst(t) ==
  /\ AtPc(t, "bind_unlock")
  /\ CallMutex' = NoThread
  /\ LET f == Top(t)
         write == <<[f EXCEPT !.pc = "call_lock", !.old = NoOld]>>
     IN IF f.old /= NoOld
        THEN /\ calls' = [calls EXCEPT ![f.old.k].contInv = @ + 1]
             /\ Continue(t, write
                            \o ContInvoke(f.old.k, NoClientReply(f.old.id))
                            \o CallDtor(f.old.k, "cont"))
        ELSE /\ Continue(t, write)
             /\ UNCHANGED calls
  /\ UNCHANGED <<TranspWriter, RequestCancelersMutex, endpointVars,
                 cancelVars, outVars, wire, handled, logged, HandlerContext>>

\* bindReply after its locked block: if (OldestCB) OldestCB->second(error);
\* then callRaw goes on to write the call.
bindReplyUnlock(t) ==
  /\ AtPc(t, "bind_unlock")
  /\ CallMutex' = NoThread
  /\ LET f == Top(t)
         write == <<[f EXCEPT !.pc = "call_lock", !.old = NoOld]>>
     IN IF f.old /= NoOld
        THEN /\ calls' = [calls EXCEPT ![f.old.k].contInv = @ + 1]
             /\ Continue(t, ContInvoke(f.old.k, NoClientReply(f.old.id))
                            \o CallDtor(f.old.k, "cont") \o write)
        ELSE /\ Continue(t, write)
             /\ UNCHANGED calls
  /\ UNCHANGED <<TranspWriter, RequestCancelersMutex, endpointVars,
                 cancelVars, outVars, wire, handled, logged, HandlerContext>>

\* callRaw: std::lock_guard<std::mutex> Lock(TranspWriter);
callRawLock(t) ==
  /\ AtPc(t, "call_lock")
  /\ TranspWriter = NoThread
  /\ TranspWriter' = t
  /\ Continue(t, <<[Top(t) EXCEPT !.pc = "call_write"]>>)
  /\ UNCHANGED <<CallMutex, RequestCancelersMutex, endpointVars, calls,
                 cancelVars, outVars, wire, handled, logged, HandlerContext>>

\* callRaw: Transp.call(Method, std::move(Params), ID);
callRawWrite(t) ==
  /\ AtPc(t, "call_write")
  /\ wire' = Append(wire, CallFrame(Top(t).n))
  /\ TranspWriter' = NoThread
  /\ Go(t, calls, <<>>)
  /\ UNCHANGED <<CallMutex, RequestCancelersMutex, endpointVars,
                 cancelVars, outVars, handled, logged, HandlerContext>>

\* notify: std::lock_guard<std::mutex> Lock(TranspWriter);
notifyLock(t) ==
  /\ AtPc(t, "notify_lock")
  /\ TranspWriter = NoThread
  /\ TranspWriter' = t
  /\ Continue(t, <<F("notify_write")>>)
  /\ UNCHANGED <<CallMutex, RequestCancelersMutex, endpointVars, calls,
                 cancelVars, outVars, wire, handled, logged, HandlerContext>>

\* notify: Transp.notify(Method, std::move(Params));
notifyWrite(t) ==
  /\ AtPc(t, "notify_write")
  /\ wire' = Append(wire, NotifyFrame)
  /\ TranspWriter' = NoThread
  /\ Go(t, calls, <<>>)
  /\ UNCHANGED <<CallMutex, RequestCancelersMutex, endpointVars,
                 cancelVars, outVars, handled, logged, HandlerContext>>

\* ------------------------------------------------------------ ClangdServer
\* ClangdServer runs the callbacks it is given on its worker threads.  It is
\* expected to invoke each callback once and then destroy it; here it may
\* also destroy it uninvoked or invoke it up to MaxInvoke times, also from
\* two workers at once.
Cancelled == Res("RequestCancelled", "", -1)
TweakFailed == Res("Unknown", "tweak failed", -1)
TweakApplied == Res("ok", "Tweak applied.", -1)
FixApplied == Res("ok", "Fix applied.", -1)
NotApplied == Res("Unknown", "edits were not applied", -1)
ClientError == Res("Unknown", "client error", -1)

\* What a task may pass to the callback of call k.
EngineResults(k) == {Ok} \cup (IF k \in cancelled THEN {Cancelled} ELSE {})
\* What the Tweak::Effect passed to Action can be.
TweakEffects == {"error", "message", "edit"}

\* ClangdServer starts an invocation of the callback of call k.
Invoked(k) == [calls EXCEPT ![k].taskInv = @ + 1, ![k].taskRun = @ + 1]
CanInvoke(w, k) ==
  /\ stack[w] = <<>>
  /\ calls[k].task = "pending"
  /\ calls[k].taskInv < MaxInvoke
  /\ calls[k].obj["engine"].Server

\* The callback of onHover: Reply(result or error).
HoverCallback(w, k, r) ==
  /\ CanInvoke(w, k)
  /\ calls[k].method = "textDocument/hover"
  /\ Start(w, Invoked(k), CallReply(k, "engine", r)
                          \o <<Frame("callback_end", k, "engine", NoRes)>>)
  /\ UNCHANGED <<TranspWriter, CallMutex, RequestCancelersMutex,
                 endpointVars, cancelVars, outVars, wire, handled, logged, HandlerContext>>

\* The lambda Action of onCommand, for each Tweak::Effect it can be given.
\* It moves Reply out of its capture, so unlike the callback of onHover it
\* has defined behaviour only when it is invoked once.
TweakAction(w, k, R) ==
  /\ CanInvoke(w, k)
  /\ calls[k].taskInv = 0
  /\ calls[k].method = "workspace/executeCommand"
  /\ LET end == <<Frame("callback_end", k, "engine", NoRes)>>
     IN CASE R = "error" ->
               \* if (!R) return Reply(R.takeError());
               Start(w, Invoked(k), CallReply(k, "engine", TweakFailed) \o end)
          [] R = "message" ->
               \* notify("window/showMessage", Msg); Reply("Tweak applied.")
               Start(w, Invoked(k),
                     <<F("notify_lock")>>
                     \o CallReply(k, "engine", TweakApplied) \o end)
          [] OTHER ->
               \* return ApplyEdit(std::move(WE), "...", std::move(Reply));
               Start(w, [Invoked(k) EXCEPT
                           ![k] = MoveObj(@, "engine", "cont")],
                     <<Frame("bindReply", k, "cont", NoRes)>> \o end)
  /\ UNCHANGED <<TranspWriter, CallMutex, RequestCancelersMutex,
                 endpointVars, cancelVars, outVars, wire, handled, logged, HandlerContext>>

\* Transp.loop has returned: run() is at Server.reset() or past it.
LoopEnded ==
  stack["main"] /= <<>>
  /\ Top("main").pc \in {"run_reset", "run_return", "members", "destroyed"}

\* The task is over: its callback is destroyed, then its Context.
EngineDestroy(w, k) ==
  /\ stack[w] = <<>>
  /\ calls[k].task = "pending"
  /\ calls[k].taskRun = 0
  /\ Start(w, [calls EXCEPT ![k].task = "ended",
                             ![k].endedIn = IF LoopEnded THEN "teardown"
                                            ELSE "loop"],
           CallDtor(k, "engine") \o <<Frame("ctx_exit", k, "engine", NoRes)>>)
  /\ UNCHANGED <<TranspWriter, CallMutex, RequestCancelersMutex,
                 endpointVars, cancelVars, outVars, wire, handled, logged, HandlerContext>>

\* ~ClangdServer returns when every task is over and every worker has ended.
Drained ==
  /\ \A k \in 1..Len(calls) : calls[k].task /= "pending"
  /\ \A w \in Workers : stack[w] = <<>>

\* ---------------------------------------------------------------- onReply
ReplyIDs == {JInt(n) : n \in 0..(MaxCalls - 1)} \cup {JStr("0")}
\* What the client answers to workspace/applyEdit: applied, not applied, or
\* an error.
ReplyOutcomes == {"applied", "refused", "error"}

MatchesFront(cbs, n) == IF cbs = <<>> THEN 0 ELSE 1

\* for (Index = 0; ...) if (ReplyCallbacks[Index].first == *IntID)
FirstMatch(cbs, n) ==
  IF \E i \in 1..Len(cbs) : cbs[i].id = n
  THEN CHOOSE i \in 1..Len(cbs) :
         cbs[i].id = n /\ \A j \in 1..(i - 1) : cbs[j].id /= n
  ELSE 0
EraseNothing(cbs, i) == cbs

\* ReplyCallbacks.erase(ReplyCallbacks.begin() + Index)
EraseAt(cbs, i) == SubSeq(cbs, 1, i - 1) \o SubSeq(cbs, i + 1, Len(cbs))

\* What the continuation of ApplyEdit replies for a client reply: the
\* client's error, "edits were not applied", or the SuccessMessage of the
\* command.
ContResult(c, Outcome) ==
  CASE Outcome = "error" -> ClientError
    [] Outcome = "refused" -> NotApplied
    [] OTHER -> IF c.cmd = "applyFix" THEN FixApplied ELSE TweakApplied

\* onReply up to the end of the scan under CallMutex.  A non-integer id
\* takes no lock and ends in the default handler, which only logs.
onReply(ID, Outcome) ==
  /\ AtPc("main", "loop")
  /\ IF ID.kind = "int"
     THEN /\ CallMutex = NoThread
          /\ CallMutex' = "main"
          /\ LET i == FirstMatch(ReplyCallbacks, ID.n)
             IN /\ ReplyCallbacks' =
                     IF i = 0 THEN ReplyCallbacks
                     ELSE EraseAt(ReplyCallbacks, i)
                /\ calls' =
                     IF i = 0 THEN calls
                     ELSE [calls EXCEPT ![ReplyCallbacks[i].k].cont = "claimed"]
                /\ Continue("main",
                     <<[F("onReply_unlock") EXCEPT
                          !.old = IF i = 0 THEN NoOld ELSE ReplyCallbacks[i],
                          !.res = IF i = 0 THEN NoRes
                                  ELSE ContResult(calls[ReplyCallbacks[i].k],
                                                  Outcome)],
                       F("loop")>>)
     ELSE UNCHANGED <<CallMutex, ReplyCallbacks, calls, stack>>
  /\ HandlerContext' = handlerContext
  /\ UNCHANGED <<TranspWriter, RequestCancelersMutex, endpointVars,
                 cancelVars, NextCallID, wire, handled, logged>>

onReplyInvokesLocked ==
  /\ AtPc("main", "onReply_unlock")
  /\ LET f == Top("main")
     IN IF f.old /= NoOld
        THEN /\ calls' = [calls EXCEPT ![f.old.k].contInv = @ + 1]
             /\ Continue("main", ContInvoke(f.old.k, f.res)
                                 \o CallDtor(f.old.k, "cont"))
             /\ UNCHANGED CallMutex
        ELSE /\ Return("main")
             /\ CallMutex' = NoThread
             /\ UNCHANGED calls
  /\ UNCHANGED <<TranspWriter, RequestCancelersMutex, endpointVars,
                 cancelVars, outVars, wire, handled, logged, HandlerContext>>

\* onReply after the locked block: ReplyHandler(std::move(Result)), which is
\* the claimed continuation or the default handler.
onReplyUnlock ==
  /\ AtPc("main", "onReply_unlock")
  /\ CallMutex' = NoThread
  /\ LET f == Top("main")
     IN IF f.old /= NoOld
        THEN /\ calls' = [calls EXCEPT ![f.old.k].contInv = @ + 1]
             /\ Continue("main", ContInvoke(f.old.k, f.res)
                                 \o CallDtor(f.old.k, "cont"))
        ELSE /\ Return("main")
             /\ UNCHANGED calls
  /\ UNCHANGED <<TranspWriter, RequestCancelersMutex, endpointVars,
                 cancelVars, outVars, wire, handled, logged, HandlerContext>>

\* --------------------------------------------------------------- onNotify
\* Params of a notification: whether they decode (for $/cancelRequest:
\* whether they are an object with an "id"), and the id they carry.
NotifyInputs ==
  {in \in [method : NotifyMethods, ok : BOOLEAN, id : InboundIDs] :
     /\ (in.method \notin BoundNotifications \cup {"$/cancelRequest"}
           => in.ok)
     /\ (in.method /= "$/cancelRequest" \/ ~in.ok => in.id = JInt(1))}

\* Notifications.lookup(Method)
LookupNotification(Method) == Method \in BoundNotifications

NoGate == FALSE

\* onNotify: if (!Server.Server)
Uninitialized == ~Server

onCancelStale(ID) ==
  IF to_string(ID) \in DOMAIN RequestCancelers
  THEN {RequestCancelers[to_string(ID)].task}
  ELSE {k \in 1..Len(calls) : calls[k].id = ID}

CancelAll(ID) ==
  {RequestCancelers[s].task : s \in DOMAIN RequestCancelers}

\* onCancel: auto It = RequestCancelers.find(StrID);
\* if (It != RequestCancelers.end()) It->second.first();
\* The tasks whose Canceler is invoked.
onCancel(ID) ==
  IF to_string(ID) \in DOMAIN RequestCancelers
  THEN {RequestCancelers[to_string(ID)].task}
  ELSE {}

\* What onNotify writes to the log besides "<-- Method".
BeforeInitialization == "Notification before initialization"
UnhandledNotification == "unhandled notification"
\* What onCancel writes to the log.
BadCancellation == "Bad cancellation request"

CarriesAnyID(ParamsOk) == TRUE

\* onCancel: if (auto *O = Params.getAsObject()) ID = O->get("id");
\* if (!ID) { elog(...); return; }
CarriesID(ParamsOk) == ParamsOk

ExitOnceInitialized(Method) == Method = "exit" /\ Server

\* if (Method == "exit") return false;
ExitRequested(Method) == Method = "exit"

\* onNotify, with onCancel up to It->second.first() under the lock.
onNotify(Method, ParamsOk, ID) ==
  /\ AtPc("main", "loop")
  /\ IF ExitRequested(Method)
     THEN /\ Continue("main", <<F("loop_stop")>>)
          /\ UNCHANGED <<RequestCancelersMutex, cancelled, handled, logged>>
     ELSE IF Uninitialized
     THEN /\ logged' = logged \cup {BeforeInitialization}
          /\ UNCHANGED <<stack, RequestCancelersMutex, cancelled, handled>>
     ELSE IF Method = "$/cancelRequest"
     THEN IF CarriesID(ParamsOk)
          THEN /\ RequestCancelersMutex = NoThread
               /\ RequestCancelersMutex' = "main"
               /\ cancelled' = cancelled \cup onCancel(ID)
               /\ Continue("main", <<F("cancel_unlock"), F("loop")>>)
               /\ UNCHANGED <<handled, logged>>
          ELSE /\ logged' = logged \cup {BadCancellation}
               /\ UNCHANGED <<stack, RequestCancelersMutex, cancelled,
                              handled>>
     ELSE IF LookupNotification(Method)
     THEN /\ handled' = IF fromJSON(ParamsOk) THEN handled \cup {Method}
                         ELSE handled
          /\ UNCHANGED <<stack, RequestCancelersMutex, cancelled, logged>>
     ELSE /\ logged' = logged \cup {UnhandledNotification}
          /\ UNCHANGED <<stack, RequestCancelersMutex, cancelled, handled>>
  /\ HandlerContext' = handlerContext
  /\ UNCHANGED <<TranspWriter, CallMutex, endpointVars, calls,
                 RequestCancelers, NextRequestCookie, outVars, wire>>

\* onCancel: the lock_guard ends.
onCancelUnlock ==
  /\ AtPc("main", "cancel_unlock")
  /\ RequestCancelersMutex' = NoThread
  /\ Return("main")
  /\ UNCHANGED <<TranspWriter, CallMutex, endpointVars, calls,
                 RequestCancelers, NextRequestCookie, cancelled, outVars,
                 wire, handled, logged, HandlerContext>>

\* ------------------------------------------------------- run and teardown
\* Transp.loop returns because onNotify returned false: it returns no error,
\* and run goes on to Server.reset() with CleanExit still true.
LoopStops ==
  /\ AtPc("main", "loop_stop")
  /\ Continue("main", <<F("run_reset")>>)
  /\ UNCHANGED <<TranspWriter, CallMutex, RequestCancelersMutex,
                 endpointVars, calls, cancelVars, outVars, wire, handled,
                 logged, HandlerContext>>

\* Transp.loop returns for a reason of its own: the stream ended, or (Error)
\* the transport failed.
LoopEnds(Error) ==
  /\ AtPc("main", "loop")
  /\ CleanExit' = ~Error
  /\ Continue("main", <<F("run_reset")>>)
  /\ UNCHANGED <<TranspWriter, CallMutex, RequestCancelersMutex, Server,
                 IsBeingDestroyed, ShutdownRequestReceived, negotiatedVars,
                 calls,
                 cancelVars, outVars, wire, handled, logged, HandlerContext>>

\* run: Server.reset(); it returns once ClangdServer's workers have ended.
runReset ==
  /\ AtPc("main", "run_reset")
  /\ Drained
  /\ Server' = FALSE
  /\ Continue("main", <<F("run_return")>>)
  /\ UNCHANGED <<TranspWriter, CallMutex, RequestCancelersMutex,
                 IsBeingDestroyed, ShutdownRequestReceived, CleanExit,
                 negotiatedVars, calls,
                 cancelVars, outVars, wire, handled, logged, HandlerContext>>

runIgnoresShutdown == CleanExit

\* run: return CleanExit && ShutdownRequestReceived;
runReturns == CleanExit /\ ShutdownRequestReceived

\* ~ClangdLSPServer() { IsBeingDestroyed = true; }
Destructor ==
  /\ AtPc("main", "run_return")
  /\ IsBeingDestroyed' = TRUE
  /\ Continue("main", <<F("members")>>)
  /\ UNCHANGED <<TranspWriter, CallMutex, RequestCancelersMutex, Server,
                 ShutdownRequestReceived, CleanExit, negotiatedVars, calls,
                 cancelVars,
                 outVars, wire, handled, logged, HandlerContext>>

\* The members go after the destructor's body: MsgHandler, and with it the
\* continuations still in ReplyCallbacks, front to back, each with the
\* ReplyOnce it captured.
\* The continuations before the first whose ReplyOnce has a reply to send
\* are destroyed in one step; that one is destroyed as ~ReplyOnce does it,
\* and the rest follow.
FirstToReply(cbs) ==
  IF \E i \in 1..Len(cbs) : DtorMustReply(Obj(cbs[i].k, "cont"))
  THEN CHOOSE i \in 1..Len(cbs) :
         /\ DtorMustReply(Obj(cbs[i].k, "cont"))
         /\ \A j \in 1..(i - 1) : ~DtorMustReply(Obj(cbs[j].k, "cont"))
  ELSE 0

DestroyMembers ==
  /\ AtPc("main", "members")
  /\ LET i == FirstToReply(ReplyCallbacks)
         n == IF i = 0 THEN Len(ReplyCallbacks) ELSE i - 1
         gone == {ReplyCallbacks[j].k : j \in 1..n}
         cs == [k \in 1..Len(calls) |->
                  IF k \in gone
                  THEN [calls[k] EXCEPT !.obj["cont"] = NoObj,
                                        !.cont = "dropped"]
                  ELSE calls[k]]
     IN IF i = 0
        THEN /\ ReplyCallbacks' = <<>>
             /\ Go("main", cs, <<F("destroyed")>>)
        ELSE /\ ReplyCallbacks' = SubSeq(ReplyCallbacks, i + 1,
                                         Len(ReplyCallbacks))
             /\ Go("main",
                   [cs EXCEPT ![ReplyCallbacks[i].k].cont = "dropped"],
                   CallDtor(ReplyCallbacks[i].k, "cont") \o <<F("members")>>)
  /\ UNCHANGED <<TranspWriter, CallMutex, RequestCancelersMutex,
                 endpointVars, cancelVars, NextCallID, wire, handled, logged, HandlerContext>>

\* ------------------------------------------------------------------- Init
\* The endpoint after ClangdLSPServer's constructor, with run() at Transp.loop.
\* ForcedOffsetEncoding is the constructor's argument of that name.
InitWith(ForcedOffsetEncoding) ==
  /\ stack = [t \in Threads |-> IF t = "main" THEN <<F("loop")>> ELSE <<>>]
  /\ TranspWriter = NoThread
  /\ CallMutex = NoThread
  /\ RequestCancelersMutex = NoThread
  /\ Server = FALSE
  /\ IsBeingDestroyed = FALSE
  /\ NegotiatedOffsetEncoding = ForcedOffsetEncoding
  /\ ClangdServerOpts = [SemanticHighlighting |-> FALSE, WorkspaceRoot |-> None]
  /\ ShutdownRequestReceived = FALSE
  /\ CleanExit = TRUE
  /\ calls = <<>>
  /\ RequestCancelers = EmptyMap
  /\ NextRequestCookie = Cookie0
  /\ cancelled = {}
  /\ ReplyCallbacks = <<>>
  /\ NextCallID = 0
  /\ wire = <<>>
  /\ handled = {}
  /\ logged = {}
  /\ HandlerContext = None

\* No encoding is forced.
Init == InitWith(None)

\* ------------------------------------------------------------------- Next
\* The steps of the dispatch thread that are not the arrival of an envelope.
MainStep ==
  \/ onCallDispatch
  \/ onCancelUnlock
  \/ onReplyUnlock
  \/ runReset
  \/ Destructor
  \/ DestroyMembers

\* ReplyOnce and the Context cleanup, on any thread.
ReplyStep ==
  \/ \E t \in Threads : ReplyExchange(t)
  \/ \E t \in Threads : ReplyLock(t)
  \/ \E t \in Threads : ReplyWrite(t)
  \/ \E t \in Threads : ContextExit(t)
  \/ \E t \in Threads : CleanupUnlock(t)

\* callRaw and notify, on any thread.
OutboundStep ==
  \/ \E t \in Threads : bindReply(t)
  \/ \E t \in Threads : bindReplyUnlock(t)
  \/ \E t \in Threads : callRawLock(t)
  \/ \E t \in Threads : callRawWrite(t)

NotifyStep ==
  \/ \E t \in Threads : notifyLock(t)
  \/ \E t \in Threads : notifyWrite(t)

\* ClangdServer's workers are interchangeable: a task that starts takes the
\* first idle one.
WorkerOrder == <<"w1", "w2">>
FirstIdle(w) ==
  \E i \in 1..Len(WorkerOrder) :
    /\ WorkerOrder[i] = w
    /\ stack[w] = <<>>
    /\ \A j \in 1..(i - 1) : stack[WorkerOrder[j]] /= <<>>

HoverStep ==
  \E w \in Workers, k \in 1..Len(calls) :
    \E r \in EngineResults(k) : FirstIdle(w) /\ HoverCallback(w, k, r)

DestroyStep ==
  \E w \in Workers, k \in 1..Len(calls) :
    FirstIdle(w) /\ EngineDestroy(w, k)

\* The same with a ClangdServer that invokes every callback exactly once.
HoverOnceStep ==
  \E w \in Workers, k \in 1..Len(calls) :
    \E r \in EngineResults(k) :
      FirstIdle(w) /\ calls[k].taskInv = 0 /\ HoverCallback(w, k, r)

DestroyInvokedStep ==
  \E w \in Workers, k \in 1..Len(calls) :
    FirstIdle(w) /\ calls[k].taskInv = 1 /\ EngineDestroy(w, k)

\* Spec: the client sends at most MaxCalls calls, of any kind, and any
\* notifications and replies.
Next ==
  \/ \E in \in CallInputs :
       Len(calls) < MaxCalls /\ onCall(in.id, in.method, in.decodes, in.cmd, in.params)
  \/ \E in \in NotifyInputs : onNotify(in.method, in.ok, in.id)
  \/ \E ID \in ReplyIDs, o \in ReplyOutcomes : onReply(ID, o)
  \/ LoopStops
  \/ \E e \in BOOLEAN : LoopEnds(e)
  \/ MainStep
  \/ ReplyStep
  \/ OutboundStep
  \/ NotifyStep
  \/ HoverStep
  \/ \E w \in Workers, k \in 1..Len(calls), e \in TweakEffects :
       FirstIdle(w) /\ TweakAction(w, k, e)
  \/ DestroyStep

Spec == Init /\ [][Next]_vars

\* SpecOverlap: the client initializes the server and then sends up to
\* MaxOverlap hover calls, under either id, which may be in flight together,
\* and any $/cancelRequest.
OverlapCalls(k) ==
  IF k = 1
  THEN {in \in CallInputs : in.method = "initialize" /\ in.decodes}
  ELSE {in \in CallInputs : in.method = "textDocument/hover" /\ in.decodes}
OverlapNotifications ==
  {in \in NotifyInputs : in.method = "$/cancelRequest" /\ in.ok}

NextOverlap ==
  \/ \E in \in OverlapCalls(Len(calls) + 1) :
       /\ Len(calls) < 1 + MaxOverlap
       /\ onCall(in.id, in.method, in.decodes, in.cmd, in.params)
  \/ \E in \in OverlapNotifications : onNotify(in.method, in.ok, in.id)
  \/ LoopEnds(FALSE)
  \/ onCallDispatch
  \/ onCancelUnlock
  \/ runReset
  \/ Destructor
  \/ DestroyMembers
  \/ ReplyStep
  \/ HoverOnceStep
  \/ DestroyInvokedStep

SpecOverlap == Init /\ [][NextOverlap]_vars

\* BurstCalls calls arrive one after the other while the dispatch thread is
\* in the loop and no mutex is held, each with an id that no other call
\* uses and a method that is not bound: onCall registers each, answers it
\* ("method not found", or "server not initialized") and its cleanup erases
\* its entry before the next arrives.  Their records and their frames are
\* not kept; what stays of them is NextRequestCookie.
onCallBurst ==
  /\ AtPc("main", "loop")
  /\ TranspWriter = NoThread /\ RequestCancelersMutex = NoThread
  /\ calls /= <<>>
  /\ NextRequestCookie = CookieInc(calls[Len(calls)].cookie)
  /\ NextRequestCookie' = CookieAdd(NextRequestCookie, BurstCalls)
  /\ UNCHANGED <<stack, TranspWriter, CallMutex, RequestCancelersMutex,
                 endpointVars, calls, RequestCancelers, cancelled, outVars,
                 wire, handled, logged, HandlerContext>>

\* SpecWrap: SpecOverlap without cancellation, with a client that sends
\* enough calls between two hover calls for NextRequestCookie to come round.
NextWrap ==
  \/ \E in \in OverlapCalls(Len(calls) + 1) :
       /\ Len(calls) < 1 + MaxOverlap
       /\ onCall(in.id, in.method, in.decodes, in.cmd, in.params)
  \/ onCallBurst
  \/ LoopEnds(FALSE)
  \/ onCallDispatch
  \/ runReset
  \/ Destructor
  \/ DestroyMembers
  \/ ReplyStep
  \/ HoverOnceStep
  \/ DestroyInvokedStep

SpecWrap == Init /\ [][NextWrap]_vars

\* SpecOut: the client initializes the server and lets MaxReplayCallbacks - 1
\* applyFix commands go unanswered, one after the other.  Then it sends up
\* to TailCalls more commands, which the server turns into workspace/applyEdit
\* calls on the dispatch thread (applyFix) or on a worker (applyTweak), and
\* replies to some of the calls it has received.
Prefill == MaxReplayCallbacks - 1
OutCalls(k) ==
  IF k = 1
  THEN {in \in CallInputs :
          in.method = "initialize" /\ in.decodes /\ in.id = JInt(1)}
  ELSE {in \in CallInputs :
          /\ in.id = JInt(1)
          /\ in.cmd = "applyFix" \/ (k > 1 + Prefill /\ in.cmd = "applyTweak")}
OutReplyIDs == {JInt(0), JInt(1)}
\* The client replies to call 0 that it applied the edit, and to call 1
\* that it did or with an error.
OutReplies ==
  {r \in [id : OutReplyIDs, outcome : {"applied", "error"}] :
     r.id = JInt(0) => r.outcome = "applied"}

NextOut ==
  \/ \E in \in OutCalls(Len(calls) + 1) :
       /\ Len(calls) < 1 + Prefill + TailCalls
       /\ onCall(in.id, in.method, in.decodes, in.cmd, in.params)
  \/ \E r \in OutReplies :
       Len(calls) > Prefill /\ onReply(r.id, r.outcome)
  \/ Len(calls) > Prefill /\ LoopEnds(FALSE)
  \/ onCallDispatch
  \/ onReplyUnlock
  \/ runReset
  \/ Destructor
  \/ DestroyMembers
  \/ ReplyStep
  \/ OutboundStep
  \/ \E w \in Workers, k \in 1..Len(calls) :
       FirstIdle(w) /\ calls[k].taskInv = 0 /\ TweakAction(w, k, "edit")
  \/ DestroyInvokedStep

SpecOut == Init /\ [][NextOut]_vars

\* SpecWrite: the client initializes the server and sends up to MaxOverlap
\* commands, which the dispatch thread and the workers answer with replies,
\* window/showMessage notifications and workspace/applyEdit calls; it
\* replies to the first of these calls.
WriteCalls(k) ==
  IF k = 1
  THEN {in \in CallInputs :
          in.method = "initialize" /\ in.decodes /\ in.id = JInt(1)}
  ELSE {in \in CallInputs :
          in.id = JInt(1) /\ in.cmd \in {"applyFix", "applyTweak"}}

NextWrite ==
  \/ \E in \in WriteCalls(Len(calls) + 1) :
       /\ Len(calls) < 1 + MaxOverlap
       /\ onCall(in.id, in.method, in.decodes, in.cmd, in.params)
  \/ onReply(JInt(0), "applied")
  \/ LoopEnds(FALSE)
  \/ onCallDispatch
  \/ onReplyUnlock
  \/ runReset
  \/ Destructor
  \/ DestroyMembers
  \/ ReplyStep
  \/ OutboundStep
  \/ NotifyStep
  \/ \E w \in Workers, k \in 1..Len(calls), e \in TweakEffects :
       FirstIdle(w) /\ TweakAction(w, k, e)
  \/ DestroyInvokedStep

SpecWrite == Init /\ [][NextWrite]_vars

\* SpecInit: the endpoint is constructed with any ForcedOffsetEncoding, and
\* the client sends up to MaxInitCalls calls under one id, each an
\* initialize with any params, decodable or not, or a shutdown; it sends
\* didOpen notifications and replies to calls the server never made.
MaxInitCalls == 3
InitCalls ==
  {in \in [id : {JInt(1)}, method : {"initialize", "shutdown"},
           decodes : BOOLEAN, cmd : {"none"},
           params : {None} \cup {Some(P) : P \in InitializeParams}] :
     /\ (in.method = "shutdown" => in.decodes)
     /\ (in.params /= None) <=> (in.method = "initialize" /\ in.decodes)}

InitForced ==
  \E f \in {None} \cup {Some(e) : e \in OffsetEncodings} : InitWith(f)

NextInit ==
  \/ \E in \in InitCalls :
       /\ Len(calls) < MaxInitCalls
       /\ onCall(in.id, in.method, in.decodes, in.cmd, in.params)
  \/ onNotify("textDocument/didOpen", TRUE, JInt(1))
  \/ onReply(JStr("0"), "applied")
  \/ LoopEnds(FALSE)
  \/ onCallDispatch
  \/ runReset
  \/ Destructor
  \/ DestroyMembers
  \/ ReplyStep

SpecInit == InitForced /\ [][NextInit]_vars

\* Outbound calls are made one after the other while the dispatch thread is
\* in the loop, no call is in flight and ReplyCallbacks is empty, each for
\* an applyFix command under an id of its own that the client's reply to
\* workspace/applyEdit completes before the next arrives, until NextCallID
\* is INT_MAX.  Their records and frames are not kept; what stays of them is
\* NextCallID and NextRequestCookie.
callRawBurst ==
  /\ AtPc("main", "loop") /\ Server
  /\ \A w \in Workers : stack[w] = <<>>
  /\ TranspWriter = NoThread /\ CallMutex = NoThread
  /\ RequestCancelersMutex = NoThread
  /\ ReplyCallbacks = <<>> /\ RequestCancelers = EmptyMap
  /\ NextCallID >= 0 /\ NextCallID < INT_MAX
  /\ LET n == INT_MAX - NextCallID
     IN NextRequestCookie' =
          CookieAdd(NextRequestCookie,
                    [hi |-> n \div HalfModulus, lo |-> n % HalfModulus])
  /\ NextCallID' = INT_MAX
  /\ UNCHANGED <<stack, TranspWriter, CallMutex, RequestCancelersMutex,
                 endpointVars, calls, RequestCancelers, cancelled,
                 ReplyCallbacks, wire, handled, logged, HandlerContext>>

\* SpecIdWrap: the client initializes the server and sends applyFix
\* commands, enough of them for NextCallID to reach INT_MAX, and answers
\* the call INT_MAX and the one after it.
NextIdWrap ==
  \/ \E in \in WriteCalls(Len(calls) + 1) :
       /\ Len(calls) < 1 + MaxOverlap
       /\ in.cmd \in {"none", "applyFix"}
       /\ onCall(in.id, in.method, in.decodes, in.cmd, in.params)
  \/ callRawBurst
  \/ \E n \in {INT_MAX, IntInc(INT_MAX)}, o \in {"applied", "error"} :
       onReply(JInt(n), o)
  \/ LoopEnds(FALSE)
  \/ onCallDispatch
  \/ onReplyUnlock
  \/ runReset
  \/ Destructor
  \/ DestroyMembers
  \/ ReplyStep
  \/ OutboundStep

SpecIdWrap == Init /\ [][NextIdWrap]_vars

\* SpecOutWrap: SpecOut with NextCallID at INT_MAX when the commands that
\* fill ReplyCallbacks begin, so that the registry fills and overflows with
\* ids from either side of the overflow.
NextOutWrap ==
  \/ NextOut
  \/ callRawBurst

SpecOutWrap == Init /\ [][NextOutWrap]_vars

\* =============================================================== properties
Calls == 1..Len(calls)
\* The reply frames on the wire that answer call k.
RepliesTo(k) ==
  {i \in 1..Len(wire) : wire[i].type = "reply" /\ wire[i].k = k}
Replies(k) == Cardinality(RepliesTo(k))
\* The endpoint has shut down: run() has returned and ~ClangdLSPServer and
\* the destructors of the members have run.
Shutdown == AtPc("main", "destroyed")

\* C1: once the endpoint has shut down, every inbound call has exactly one
\* reply frame with its id on the wire, whatever the interleaving of the
\* dispatch thread and the workers; the only calls with none are those whose
\* ReplyOnce was captured by the continuation of an outbound call that was
\* still waiting for the client when the server was destroyed.
C1_ReplyOnceByShutdown ==
  Shutdown =>
    \A k \in Calls :
      /\ \A i \in RepliesTo(k) : wire[i].id = calls[k].id
      /\ \/ Replies(k) = 1
         \/ Replies(k) = 0 /\ calls[k].cont = "dropped"

\* Two calls, one answered by a worker, both answered once at shutdown.
C1_Witness ==
  /\ Shutdown
  /\ Len(calls) = 2
  /\ \A k \in Calls : Replies(k) = 1
  /\ \E k \in Calls : calls[k].task = "ended" /\ calls[k].taskInv > 0

\* C2: however often, and from however many threads at once, Reply is
\* invoked on one ReplyOnce, the call never has more than one reply frame
\* on the wire, and once two or more invocations have returned it has
\* exactly one.
C2_DoubleReplyWritesOnce ==
  \A k \in Calls :
    /\ Replies(k) <= 1
    /\ (calls[k].taskInv >= 2 /\ calls[k].taskRun = 0) => Replies(k) = 1

\* The callback of the only task there is was invoked on the second worker
\* while its first invocation was running on the first; the first has
\* written the reply and the second is about to do its exchange.
C2_Witness ==
  \E k \in Calls :
    /\ calls[k].taskInv = 2
    /\ Replies(k) = 1
    /\ AtPc("w2", "reply") /\ Top("w2").k = k
    /\ \A j \in Calls \ {k} : calls[j].task = "none"

\* C3: when a ReplyOnce that still owns its request has been destroyed
\* without Reply having been invoked, while run() was in Transp.loop, the
\* call has exactly one reply frame on the wire, and it carries
\* InternalError "server failed to reply".
DroppedUnreplied(k) ==
  /\ calls[k].task = "ended"
  /\ calls[k].taskInv = 0
  /\ ~calls[k].obj["engine"].live
C3_DroppedHandleReplies ==
  \A k \in Calls :
    (DroppedUnreplied(k) /\ calls[k].endedIn = "loop") =>
      /\ Replies(k) = 1
      /\ \A i \in RepliesTo(k) : wire[i].res = ServerFailedToReply

C3_Witness ==
  \E k \in Calls :
    /\ DroppedUnreplied(k)
    /\ calls[k].endedIn = "loop"
    /\ \E i \in RepliesTo(k) :
         /\ wire[i].res.code = "InternalError"
         /\ wire[i].res.msg = "server failed to reply"

\* C4: a ReplyOnce destroyed without a reply after Transp.loop has returned,
\* be it by a task that ends while Server.reset() waits for the workers or
\* with the continuations the server still holds, writes no frame: no
\* "server failed to reply" is on the wire for its call.
C4_TeardownWritesNothing ==
  \A k \in Calls :
    (\/ calls[k].endedIn = "teardown" /\ calls[k].taskInv = 0
     \/ calls[k].cont = "dropped") =>
      \A i \in RepliesTo(k) : wire[i].res /= ServerFailedToReply

\* C5: a call that reaches the gate of onCall while Server has no value and
\* is not initialize is answered with ServerNotInitialized and nothing else,
\* bound method or not, and no handler runs for it; a handler only ever runs
\* for initialize or with Server set.
C5_InitGate ==
  \A k \in Calls :
    calls[k].gate /= "" =>
      /\ (~calls[k].serverAt /\ calls[k].method /= "initialize") =>
           /\ calls[k].gate = "rejected"
           /\ calls[k].task = "none" /\ calls[k].cont = "none"
           /\ \A i \in RepliesTo(k) : wire[i].res = NotInitialized
           /\ "onCall" \notin calls[k].ctx => Replies(k) = 1
      /\ calls[k].gate = "handler" =>
           calls[k].serverAt \/ calls[k].method = "initialize"

\* A call of a bound method was rejected before initialize and answered.
C5_Witness ==
  \E k \in Calls :
    /\ calls[k].gate = "rejected"
    /\ calls[k].method = "textDocument/hover"
    /\ calls[k].ctx = {}
    /\ \E i \in RepliesTo(k) : wire[i].res.code = "ServerNotInitialized"

\* C6: a notification other than exit that onNotify receives while Server
\* has no value changes nothing but the log: no handler runs, no Canceler is
\* invoked and RequestCancelers is not even locked, nothing is written, and
\* the dispatch thread is back in Transp.loop.
C6_DroppedBeforeInit ==
  [][\A in \in NotifyInputs :
       (/\ ~Server /\ in.method /= "exit"
        /\ onNotify(in.method, in.ok, in.id)) =>
         /\ UNCHANGED <<stack, TranspWriter, CallMutex, RequestCancelersMutex,
                        endpointVars, calls, cancelVars, outVars, wire,
                        handled>>
         /\ AtPc("main", "loop")]_vars

\* A notification has been dropped before initialization.
C6_Witness ==
  /\ BeforeInitialization \in logged
  /\ ~Server /\ AtPc("main", "loop")
  /\ handled = {} /\ cancelled = {}
\* The Context of call k is still held: the call is in flight.
InFlight(k) == calls[k].ctx /= {}
\* RequestCancelers holds the entry call k made: its id with its cookie.
Registered(k) ==
  /\ to_string(calls[k].id) \in DOMAIN RequestCancelers
  /\ RequestCancelers[to_string(calls[k].id)].cookie = calls[k].cookie
\* A later call has the id of call k.
Superseded(k) == \E j \in Calls : j > k /\ calls[j].id = calls[k].id
\* onNotify takes a $/cancelRequest with the id ID while Server has a value.
CancelArrives(ID) == Server /\ onNotify("$/cancelRequest", TRUE, ID)

\* C7: when a $/cancelRequest with an id arrives after initialization
\* while a call with that id is in flight and registered under its cookie,
\* that call's Canceler has been invoked when onCancel is through, and the
\* notification invokes the Canceler of no other registration: not of a
\* call with another id, not of the same id under another cookie.
C7_CancelFiresItsEntry ==
  [][\A ID \in InboundIDs :
       CancelArrives(ID) =>
         LET entry == {k \in Calls : /\ calls[k].id = ID
                                     /\ InFlight(k) /\ Registered(k)}
         IN /\ entry \subseteq cancelled'
            /\ (cancelled' \ cancelled) \subseteq entry]_vars

\* Two calls with different ids are in flight; the later has been cancelled
\* and is still registered, the earlier has not.
C7_Witness ==
  \E j \in Calls, k \in Calls :
    /\ j < k /\ calls[j].id /= calls[k].id
    /\ InFlight(j) /\ Registered(j) /\ j \notin cancelled
    /\ InFlight(k) /\ Registered(k) /\ k \in cancelled

\* C8: of the calls in flight under one id, the latest is the one
\* RequestCancelers holds, with its own cookie, until its own Context is
\* gone, whenever the Contexts of the earlier ones exit; and a
\* $/cancelRequest invokes the Canceler of no call that a later call with
\* the same id has superseded.
C8_LatestStaysRegistered ==
  \A k \in Calls :
    (InFlight(k) /\ ~Superseded(k)) =>
      /\ Registered(k)
      /\ RequestCancelers[to_string(calls[k].id)].task = k
C8_IdReuse ==
  /\ []C8_LatestStaysRegistered
  /\ [][\A ID \in InboundIDs :
          CancelArrives(ID) =>
            \A k \in cancelled' \ cancelled : ~Superseded(k)]_vars

\* The earlier of two calls with one id has just run its cleanup, still
\* under the lock, after the later one was registered and cancelled; the
\* later one is still registered and the earlier was never cancelled.
C8_Witness ==
  \E j \in Calls, k \in Calls, w \in Workers :
    /\ j < k /\ calls[j].id = calls[k].id
    /\ AtPc(w, "cleanup_unlock") /\ Top(w).k = j
    /\ InFlight(k) /\ Registered(k)
    /\ k \in cancelled /\ j \notin cancelled

\* C9: whenever CallMutex is free, ReplyCallbacks has at most
\* MaxReplayCallbacks entries, whatever calls have been registered from the
\* dispatch thread and the workers and whatever the client has replied.
C9_OutboundBound ==
  CallMutex = NoThread => Len(ReplyCallbacks) <= MaxReplayCallbacks

\* The registry is full after a registration that evicted an entry.
C9_Witness ==
  /\ CallMutex = NoThread
  /\ Len(ReplyCallbacks) = MaxReplayCallbacks
  /\ \E k \in Calls : calls[k].cont = "evicted"
\* The ids of the outbound calls whose continuations have been evicted.
EvictedIDs == {calls[k].outID : k \in {j \in Calls : calls[j].cont = "evicted"}}
\* The ids of the entries of ReplyCallbacks.
PendingIDs == {ReplyCallbacks[i].id : i \in 1..Len(ReplyCallbacks)}
\* bindReply's locked block runs.
Registers ==
  CallMutex = NoThread /\ CallMutex' /= NoThread
  /\ NextCallID' = NextCallID + 1

\* C10, the registry: an evicted continuation is out of ReplyCallbacks, its
\* id is smaller than every pending one, and it is invoked once, with the
\* error that names its own id; the entries that stay have distinct ids and
\* belong to the calls that stored them.
C10_EvictedAndPending ==
  /\ \A k \in Calls :
       calls[k].cont = "evicted" =>
         /\ \A i \in 1..Len(ReplyCallbacks) :
              /\ ReplyCallbacks[i].k /= k
              /\ ReplyCallbacks[i].id > calls[k].outID
         /\ Replies(k) <= 1
         /\ \A i \in RepliesTo(k) :
              wire[i].res = NoClientReply(calls[k].outID)
         /\ ~calls[k].obj["cont"].live => Replies(k) = 1
  /\ \A i \in 1..Len(ReplyCallbacks) :
       /\ calls[ReplyCallbacks[i].k].cont = "stored"
       /\ calls[ReplyCallbacks[i].k].outID = ReplyCallbacks[i].id
  /\ Cardinality(PendingIDs) = Len(ReplyCallbacks)

\* C10: a registration that finds MaxReplayCallbacks entries evicts exactly
\* the front one, the oldest, and keeps the others in place; its
\* continuation is invoked once with the error naming the evicted id; a
\* client reply with a pending id claims that entry, and a client reply
\* with an evicted id claims none.
C10_EvictsOldest ==
  /\ []C10_EvictedAndPending
  /\ [][(Registers /\ Len(ReplyCallbacks) = MaxReplayCallbacks) =>
          /\ Len(ReplyCallbacks') = MaxReplayCallbacks
          /\ SubSeq(ReplyCallbacks', 1, MaxReplayCallbacks - 1)
               = Tail(ReplyCallbacks)
          /\ ReplyCallbacks'[MaxReplayCallbacks].id = NextCallID
          /\ Head(stack'[CallMutex']).old = Head(ReplyCallbacks)]_vars
  /\ [][\A ID \in OutReplyIDs, o \in ReplyOutcomes :
          onReply(ID, o) =>
            /\ ID.n \in EvictedIDs =>
                 /\ Top("main")'.old = NoOld
                 /\ UNCHANGED ReplyCallbacks
            /\ ID.n \in PendingIDs =>
                 /\ Top("main")'.old.id = ID.n
                 /\ Top("main")'.old \in
                      {ReplyCallbacks[i] : i \in 1..Len(ReplyCallbacks)}]_vars

\* The oldest continuation was evicted and has replied with the error; the
\* client then replies with the evicted id and onReply claims nothing,
\* while every other entry is still there.
C10_Witness ==
  /\ \E k \in Calls :
       /\ calls[k].cont = "evicted"
       /\ ~calls[k].obj["cont"].live
       /\ \E i \in RepliesTo(k) : wire[i].res.ref = calls[k].outID
  /\ \A k \in Calls : calls[k].cont /= "claimed"
  /\ Len(ReplyCallbacks) = MaxReplayCallbacks
  /\ AtPc("main", "onReply_unlock") /\ Top("main").old = NoOld
\* C11, the registry: no continuation is invoked more than once, be it by
\* a client reply, by eviction or by both; a claimed one is out of
\* ReplyCallbacks, and what it replies is what the client's reply makes it
\* reply.
C11_InvokedOnce ==
  \A k \in Calls :
    /\ calls[k].contInv <= 1
    /\ calls[k].contInv = 1 => calls[k].cont \in {"claimed", "evicted"}
    /\ calls[k].cont = "claimed" =>
         /\ \A i \in 1..Len(ReplyCallbacks) :
              /\ ReplyCallbacks[i].k /= k
              /\ ReplyCallbacks[i].id /= calls[k].outID
         /\ \A i \in RepliesTo(k) :
              wire[i].res \in {ContResult(calls[k], o) : o \in ReplyOutcomes}
         /\ (calls[k].contInv = 1 /\ ~calls[k].obj["cont"].live) =>
              Replies(k) = 1

\* C11: a client reply whose integer id is that of an entry of
\* ReplyCallbacks removes that entry and no other, and its continuation is
\* the one onReply goes on to invoke, once, with the result or error of the
\* reply; the id is then no longer pending, so a second reply with it finds
\* nothing; and no continuation is ever invoked twice.
C11_ReplyClaimsItsEntry ==
  /\ []C11_InvokedOnce
  /\ [][\A ID \in OutReplyIDs, o \in ReplyOutcomes :
          (onReply(ID, o) /\ ID.n \in PendingIDs) =>
            LET i == CHOOSE j \in 1..Len(ReplyCallbacks) :
                       ReplyCallbacks[j].id = ID.n
            IN /\ Len(ReplyCallbacks') = Len(ReplyCallbacks) - 1
               /\ \A j \in 1..Len(ReplyCallbacks') :
                    ReplyCallbacks'[j] =
                      IF j < i THEN ReplyCallbacks[j] ELSE ReplyCallbacks[j + 1]
               /\ Top("main")'.old = ReplyCallbacks[i]
               /\ Top("main")'.res = ContResult(calls[ReplyCallbacks[i].k], o)
               /\ ID.n \notin PendingIDs']_vars

\* The client has replied to call 1 with an error, its continuation has run
\* once and passed the error on; the client replies to call 1 again (call 0
\* is still pending, so it is not a reply to that) and onReply finds no
\* entry.
C11_Witness ==
  /\ \E k \in Calls :
       /\ calls[k].cont = "claimed" /\ calls[k].outID = 1
       /\ calls[k].contInv = 1
       /\ \E i \in RepliesTo(k) : wire[i].res = ClientError
  /\ \E k \in Calls : calls[k].cont = "stored" /\ calls[k].outID = 0
  /\ AtPc("main", "onReply_unlock") /\ Top("main").old = NoOld
\* C12: a client reply whose id is not an integer, or is an integer that no
\* entry of ReplyCallbacks has, is dropped: from onReply's entry to its
\* return no continuation is taken or invoked, ReplyCallbacks, NextCallID
\* and the wire stay as they are, and the dispatch thread is back in
\* Transp.loop.
C12_OrphanReplyDropped ==
  /\ [][\A ID \in ReplyIDs, o \in ReplyOutcomes :
          (onReply(ID, o) /\ (ID.kind /= "int" \/ ID.n \notin PendingIDs)) =>
            /\ UNCHANGED <<ReplyCallbacks, NextCallID, wire, calls>>
            /\ \/ AtPc("main", "loop")'
               \/ /\ AtPc("main", "onReply_unlock")'
                  /\ Top("main")'.old = NoOld
                  /\ ID.kind = "int"]_vars
  /\ [][(AtPc("main", "onReply_unlock") /\ Top("main").old = NoOld
            /\ onReplyUnlock) =>
          /\ UNCHANGED <<ReplyCallbacks, NextCallID, wire, calls>>
          /\ AtPc("main", "loop")']_vars

\* onReply has scanned a registry that holds an entry for a reply that is
\* not for it: nothing is claimed.
C12_Witness ==
  /\ AtPc("main", "onReply_unlock") /\ Top("main").old = NoOld
  /\ ReplyCallbacks /= <<>>
  /\ NextCallID = Len(ReplyCallbacks)
\* C13: a call that passes the gate with Server set and names a method
\* nothing is bound to is answered once, with MethodNotFound "method not
\* found", and no handler runs for it; a notification that names a method
\* nothing is bound to changes nothing but the log, writes nothing, and the
\* dispatch thread is back in Transp.loop.
C13_CallNotFound ==
  \A k \in Calls :
    (calls[k].gate /= "" /\ calls[k].serverAt
       /\ calls[k].method = "no/such") =>
      /\ calls[k].gate = "notfound"
      /\ calls[k].task = "none" /\ calls[k].cont = "none"
      /\ \A l \in Locs \ {"onCall"} : ~calls[k].obj[l].live
      /\ \A i \in RepliesTo(k) : wire[i].res = MethodNotFound
      /\ "onCall" \notin calls[k].ctx => Replies(k) = 1
C13_UnknownMethod ==
  /\ []C13_CallNotFound
  /\ [][\A in \in NotifyInputs :
          (Server /\ in.method = "no/such"
             /\ onNotify(in.method, in.ok, in.id)) =>
            /\ UNCHANGED <<stack, TranspWriter, CallMutex,
                           RequestCancelersMutex, endpointVars, calls,
                           cancelVars, outVars, wire, handled>>
            /\ AtPc("main", "loop")]_vars

\* After initialization a call to an unbound method has been answered and
\* a notification of an unbound method has been logged.
C13_Witness ==
  /\ \E k \in Calls :
       /\ calls[k].serverAt /\ calls[k].method = "no/such"
       /\ calls[k].ctx = {}
       /\ \E i \in RepliesTo(k) :
            /\ wire[i].res.code = "MethodNotFound"
            /\ wire[i].res.msg = "method not found"
  /\ UnhandledNotification \in logged
\* C14: a call of a bound method whose params do not decode is answered
\* once, with InvalidRequest "failed to decode request", and the server
\* method is not invoked: it gets no Callback, starts no task and no
\* outbound call, and Server and ShutdownRequestReceived stay as they are;
\* a notification of a bound method whose params do not decode changes
\* nothing at all: its handler does not run and nothing is written.
C14_CallNotDecoded ==
  \A k \in Calls :
    (calls[k].gate = "handler" /\ ~calls[k].decodes) =>
      /\ ~calls[k].obj["cb"].live
      /\ calls[k].task = "none" /\ calls[k].cont = "none"
      /\ \A i \in RepliesTo(k) : wire[i].res = DecodeFailed
      /\ "onCall" \notin calls[k].ctx => Replies(k) = 1
C14_DecodeFailure ==
  /\ []C14_CallNotDecoded
  /\ [][(onCallDispatch /\ ~calls[Top("main").k].decodes) =>
          UNCHANGED <<Server, ShutdownRequestReceived>>]_vars
  /\ [][\A in \in NotifyInputs :
          (Server /\ in.method \in BoundNotifications /\ ~in.ok
             /\ onNotify(in.method, in.ok, in.id)) =>
            UNCHANGED <<stack, TranspWriter, CallMutex,
                        RequestCancelersMutex, endpointVars, calls,
                        cancelVars, outVars, wire, handled, logged>>]_vars

\* An initialize whose params do not decode has been answered with the
\* decoding error and has not initialized the server.
C14_Witness ==
  \E k \in Calls :
    /\ calls[k].method = "initialize" /\ ~calls[k].decodes
    /\ calls[k].ctx = {}
    /\ ~Server /\ AtPc("main", "loop")
    /\ \E i \in RepliesTo(k) :
         /\ wire[i].res.code = "InvalidRequest"
         /\ wire[i].res.msg = "failed to decode request"
\* A thread is inside Transp.reply, Transp.call or Transp.notify.
Writing(t) ==
  stack[t] /= <<>>
  /\ Top(t).pc \in {"reply_write", "call_write", "notify_write"}

\* C15: a thread that is inside Transp.reply, Transp.call or Transp.notify
\* holds TranspWriter, so no two threads, dispatch thread or workers, are
\* ever inside a write together; and the wire only grows by a step of the
\* thread that holds TranspWriter.
C15_WritesUnderLock ==
  /\ [](\A t \in Threads : Writing(t) => TranspWriter = t)
  /\ [](Cardinality({t \in Threads : Writing(t)}) <= 1)
  /\ [][wire' /= wire =>
          /\ TranspWriter \in Threads /\ Writing(TranspWriter)
          /\ stack'[TranspWriter] /= stack[TranspWriter]
          /\ TranspWriter' = NoThread]_vars

\* A worker is inside a write while the dispatch thread waits for
\* TranspWriter to write a frame of its own.
C15_Witness ==
  \E w \in Workers :
    /\ Writing(w) /\ TranspWriter = w
    /\ stack["main"] /= <<>>
    /\ Top("main").pc \in {"reply_lock", "call_lock", "notify_lock"}

\* A thread is in ReplyOnce::operator(), on its way to Transp.reply.
Replying(t) ==
  stack[t] /= <<>> /\ Top(t).pc \in {"reply", "reply_lock", "reply_write"}

\* C16: a thread that is inside a transport write, or in Reply on its way
\* to one, holds neither CallMutex nor RequestCancelersMutex; and the step
\* that invokes a continuation, evicted or claimed, is the step in which the
\* invoking thread gives CallMutex back.
C16_NoWriteUnderRegistryLocks ==
  /\ [](\A t \in Threads :
          (Writing(t) \/ Replying(t)) =>
            CallMutex /= t /\ RequestCancelersMutex /= t)
  /\ [][\A k \in Calls :
          calls'[k].contInv /= calls[k].contInv =>
            /\ CallMutex \in Threads /\ CallMutex' = NoThread
            /\ stack'[CallMutex] /= stack[CallMutex]
            /\ Head(stack'[CallMutex]).pc = "reply"
            /\ Head(stack'[CallMutex]).k = k]_vars

\* The evicted continuation's error reply is being written by a thread that
\* has given CallMutex back, while another thread is in the registry.
C16_Witness ==
  \E t \in Threads :
    /\ AtPc(t, "reply_write")
    /\ calls[Top(t).k].cont = "evicted"
    /\ CallMutex \in Threads \ {t}
\* The mutexes thread t holds.
Held(t) ==
  {m \in {"TranspWriter", "CallMutex", "RequestCancelersMutex"} :
     \/ m = "TranspWriter" /\ TranspWriter = t
     \/ m = "CallMutex" /\ CallMutex = t
     \/ m = "RequestCancelersMutex" /\ RequestCancelersMutex = t}
\* The mutex the next statement of thread t locks, if it locks one.
Wants(t) ==
  IF stack[t] = <<>> THEN "none"
  ELSE CASE Top(t).pc \in {"reply_lock", "call_lock", "notify_lock"} ->
              "TranspWriter"
         [] Top(t).pc = "bindReply" -> "CallMutex"
         [] Top(t).pc = "ctx_exit"
              /\ calls[Top(t).k].ctx = {Top(t).loc} -> "RequestCancelersMutex"
         [] OTHER -> "none"

\* C17: no thread holds CallMutex and RequestCancelersMutex together, or
\* any two mutexes; a thread that holds a mutex is never about to lock
\* another, so TranspWriter is the last a thread takes and nothing is taken
\* under it; hence no thread that holds a mutex waits for one, and no set of
\* threads can wait for each other, whatever the interleaving of dispatch,
\* replies, cancellation, cleanup and outbound calls.
C17_LockOrder ==
  /\ [](\A t \in Threads :
          /\ Cardinality(Held(t)) <= 1
          /\ Held(t) /= {} => Wants(t) = "none")
  /\ [][\A t \in Threads :
          Held(t)' \ Held(t) /= {} => Held(t) = {}]_vars

\* The dispatch thread is in onCancel under RequestCancelersMutex while a
\* worker is in bindReply under CallMutex.
C17_Witness ==
  /\ AtPc("main", "cancel_unlock") /\ RequestCancelersMutex = "main"
  /\ \E w \in Workers : CallMutex = w /\ AtPc(w, "bind_unlock")
\* The calls whose onCall has not returned: its WithContext still holds the
\* Context of the request.
InOnCall == {k \in Calls : "onCall" \in calls[k].ctx}

\* C18: the dispatch thread works on one envelope at a time and in the order
\* of arrival: when it is back in the loop every call so far has been through
\* its gate, a call arrives only then, every call but the latest has been
\* through its gate, the gate of a call is decided by the dispatch thread
\* inside that call's onCall, and at most one call, the latest, is inside
\* onCall.
C18_OneAtATime ==
  /\ [](AtPc("main", "loop") =>
         /\ Len(stack["main"]) = 1
         /\ \A k \in Calls : calls[k].gate /= "")
  /\ [](\A k \in Calls : k < Len(calls) => calls[k].gate /= "")
  /\ [](InOnCall \subseteq {Len(calls)} /\ (AtPc("main", "loop") => InOnCall = {}))
  /\ [][/\ Len(calls') > Len(calls) => AtPc("main", "loop")
        /\ \A k \in Calls :
             calls'[k].gate /= calls[k].gate =>
               /\ AtPc("main", "onCall") /\ Top("main").k = k
               /\ k = Len(calls) /\ calls[k].gate = ""]_vars

\* The dispatch thread is in onCall for the third call while the task of the
\* second, whose handler has returned, is still with ClangdServer.
C18_Witness ==
  /\ AtPc("main", "onCall") /\ Top("main").k = 3
  /\ calls[2].gate = "handler" /\ calls[2].task = "pending"
\* An exit notification arrives and onNotify returns false: Transp.loop is
\* about to return, and nothing but the position of the dispatch thread
\* changed (the Context that onNotify installs for the envelope ends with
\* it).
ExitStopsLoop ==
  /\ onNotify("exit", TRUE, JInt(1))
  /\ stack'["main"] = <<F("loop_stop")>>
  /\ UNCHANGED <<TranspWriter, CallMutex, RequestCancelersMutex,
                 endpointVars, calls, cancelVars, outVars, wire, handled,
                 logged>>
\* Any other envelope arrives.
OtherEnvelope ==
  \/ \E in \in CallInputs : onCall(in.id, in.method, in.decodes, in.cmd, in.params)
  \/ \E in \in NotifyInputs :
       in.method /= "exit" /\ onNotify(in.method, in.ok, in.id)
  \/ \E ID \in ReplyIDs, o \in ReplyOutcomes : onReply(ID, o)

\* C19: whenever the dispatch thread is in the loop, initialized or not, an
\* exit notification ends the loop and runs no handler: it registers,
\* cancels, logs and writes nothing.  After any other notification, any call
\* and any reply the dispatch thread is still inside Transp.loop.
C19_OnlyExitStops ==
  /\ [](AtPc("main", "loop") => ENABLED ExitStopsLoop)
  /\ [][\A in \in NotifyInputs :
          ExitRequested(in.method) /\ onNotify(in.method, in.ok, in.id)
            => ExitStopsLoop]_vars
  /\ [][OtherEnvelope =>
          stack'["main"][Len(stack'["main"])].pc = "loop"]_vars

\* onNotify has returned false for an exit notification that came before any
\* initialize call.
C19_Witness == AtPc("main", "loop_stop") /\ ~Server /\ calls = <<>>
\* C20: after the loop has ended, IsBeingDestroyed is set before ClangdServer
\* is released and its workers are joined: the step in which Server loses
\* its value starts with the flag set.
C20_FlagBeforeRelease ==
  [][Server /\ ~Server' => IsBeingDestroyed]_vars
\* Every holder of the Context of call k has let go of it: the scope_exit of
\* cancelableRequestContext has run.
Reaped(k) == calls[k].ctx = {}
\* The ReplyOnce of call k was moved into the continuation of an outbound
\* call.
Parked(k) == calls[k].cont /= "none"

LatestFor(k) ==
  \A j \in Calls : to_string(calls[j].id) = to_string(calls[k].id) => j <= k

\* C22: RequestCancelers has a key exactly when the latest call that
\* registered under that key still has a holder of its Context, and the entry
\* is that call's; every call that arrives, whatever the gate and the lookup
\* make of it later, leaves onCall's locked block with its entry in place;
\* with every Context gone RequestCancelers is empty.
C22_EntryWhileInFlight ==
  /\ [](/\ \A k \in Calls :
             LatestFor(k) =>
               (InFlight(k) <=> to_string(calls[k].id) \in DOMAIN RequestCancelers)
        /\ \A key \in DOMAIN RequestCancelers :
             \E k \in Calls :
               /\ to_string(calls[k].id) = key /\ LatestFor(k)
               /\ RequestCancelers[key] = [task |-> k, cookie |-> calls[k].cookie]
        /\ ((\A k \in Calls : Reaped(k)) => RequestCancelers = EmptyMap))
  /\ [][Len(calls') > Len(calls) =>
          LET k == Len(calls')
          IN /\ to_string(calls'[k].id) \in DOMAIN RequestCancelers'
             /\ RequestCancelers'[to_string(calls'[k].id)].cookie =
                  calls'[k].cookie]_vars

\* The later of two calls with one id is through its cleanup and the entry
\* is gone, while the earlier still holds its Context.
C22_Witness ==
  \E j \in Calls, k \in Calls :
    /\ j < k /\ calls[j].id = calls[k].id /\ LatestFor(k)
    /\ Reaped(k) /\ InFlight(j)
    /\ to_string(calls[k].id) \notin DOMAIN RequestCancelers
    /\ RequestCancelersMutex = NoThread
\* C23: a $/cancelRequest writes nothing and leaves RequestCancelers and
\* every call record as they are; for an id that no call registered, or whose
\* entry the cleanup has erased, it invokes no Canceler at all; invoking the
\* Canceler of a call that was cancelled before changes nothing; and no call,
\* cancelled before or after its reply, has more than one reply on the wire.
C23_CancelCompletedIsNoOp ==
  /\ [][\A ID \in InboundIDs :
          CancelArrives(ID) =>
            /\ UNCHANGED <<wire, RequestCancelers, NextRequestCookie, calls,
                           outVars, handled, logged>>
            /\ (to_string(ID) \notin DOMAIN RequestCancelers
                  => cancelled' = cancelled)
            /\ ((\A k \in Calls : calls[k].id = ID => k \in cancelled)
                  => cancelled' = cancelled)]_vars
  /\ [](\A k \in cancelled : Replies(k) <= 1)

\* onCancel is under its lock for an id that has no entry: a hover call has
\* been answered and its cleanup has run, RequestCancelers is empty, and no
\* Canceler has been invoked.
C23_Witness ==
  /\ AtPc("main", "cancel_unlock")
  /\ RequestCancelers = EmptyMap /\ cancelled = {}
  /\ \E k \in Calls :
       /\ calls[k].method = "textDocument/hover"
       /\ Reaped(k) /\ Replies(k) = 1
\* The inbound calls whose handler has registered an outbound call.
Bound == {k \in Calls : calls[k].outID /= -1}

\* C24: the ids bindReply has returned are 0, 1, ... up to NextCallID - 1,
\* each to one registration; a registration, on whichever thread, takes the
\* id NextCallID, one more than the registration before it, and moves
\* NextCallID on by one.
C24_FreshOutboundIDs ==
  /\ [](/\ {calls[k].outID : k \in Bound} = 0..(NextCallID - 1)
        /\ \A j \in Bound, k \in Bound :
             calls[j].outID = calls[k].outID => j = k)
  /\ [][NextCallID' /= NextCallID =>
          /\ NextCallID' = NextCallID + 1
          /\ \E k \in Calls :
               /\ k \notin Bound /\ calls'[k].outID = NextCallID
               /\ \A j \in Calls \ {k} : calls'[j].outID = calls[j].outID]_vars

\* A worker and the dispatch thread have both registered: the command that
\* arrived later got the id 0 on the dispatch thread, the earlier one the id
\* 1 on a worker.
C24_Witness ==
  \E j \in Calls, k \in Calls :
    /\ j < k
    /\ calls[j].cmd = "applyTweak" /\ calls[j].outID = 1
    /\ calls[k].cmd = "applyFix" /\ calls[k].outID = 0
\* The initialize calls that reached onInitialize.
Initializes ==
  {k \in Calls : /\ calls[k].method = "initialize"
                 /\ calls[k].gate = "handler" /\ calls[k].decodes}

\* C25: Server has no value until an onInitialize has run Server.emplace;
\* it loses its value only in run, after Transp.loop has returned; at most
\* one call ever runs Server.emplace; and an initialize call that finds
\* Server with a value does not, and is answered "server already
\* initialized" with InvalidRequest and nothing else.
C25_InitializedOnce ==
  /\ [](/\ (Server => \E k \in Initializes : calls[k].emplaced)
        /\ ((\E k \in Calls : calls[k].emplaced) /\ ~LoopEnded => Server)
        /\ Cardinality({k \in Calls : calls[k].emplaced}) <= 1
        /\ \A k \in Initializes :
             calls[k].serverAt =>
               /\ ~calls[k].emplaced
               /\ \A i \in RepliesTo(k) : wire[i].res = AlreadyInitialized)
  /\ [][Server /\ ~Server' => AtPc("main", "run_reset")]_vars

\* A second initialize call has been answered "server already initialized"
\* and the loop is still running with Server in place.
C25_Witness ==
  /\ Server /\ AtPc("main", "loop")
  /\ \E j \in Initializes, k \in Initializes :
       /\ j < k /\ calls[j].emplaced /\ calls[k].serverAt
       /\ \E i \in RepliesTo(k) : wire[i].res = AlreadyInitialized
\* C26: Server gets its value in the step of the dispatch thread that runs
\* onInitialize, with no reply to that call on the wire yet, so every frame
\* that answers it is written with Server in place; and once an
\* onInitialize has run Server.emplace, the gate of onCall rejects no later
\* call and onNotify drops no later notification as one that came before
\* initialization.
C26_InitializedBeforeReply ==
  /\ [][~Server /\ Server' =>
          /\ AtPc("main", "onCall")
          /\ calls'[Top("main").k].emplaced
          /\ RepliesTo(Top("main").k) = {}
          /\ wire' = wire]_vars
  /\ [](\A k \in Initializes :
          calls[k].emplaced =>
            \A j \in Calls : j > k => calls[j].gate /= "rejected")
  /\ [][\A in \in NotifyInputs :
          (/\ \E k \in Calls : calls[k].emplaced
           /\ in.method /= "exit"
           /\ onNotify(in.method, in.ok, in.id))
            => BeforeInitialization \notin logged' \ logged]_vars

\* The call that came right after an answered first initialize is past the
\* gate and with its handler.
C26_Witness ==
  /\ Len(calls) >= 2
  /\ calls[1].emplaced /\ Replies(1) = 1
  /\ calls[2].gate = "handler" /\ calls[2].serverAt
  /\ calls[2].method /= "initialize"
\* The ReplyOnce objects of call k that own the request: Server is not null.
Owners(k) == {l \in Locs : Obj(k, l).live /\ Obj(k, l).Server}
\* The frames of thread t that are inside operator() of a ReplyOnce.
InReply(t) ==
  {i \in 1..Len(stack[t]) :
     stack[t][i].pc \in {"reply", "reply_lock", "reply_write"}}

\* C27: of the ReplyOnce objects of a call at most one owns the request,
\* however often and to whichever thread it was moved; operator() runs only
\* on an object that owns it, be it invoked by a handler or by ~ReplyOnce, so
\* the destruction of a moved-from object writes nothing; every reply frame
\* is written by a thread inside operator() of the owner; and a call has at
\* most one reply frame.
C27_OwnershipMoves ==
  /\ [](\A k \in Calls :
          /\ Cardinality(Owners(k)) <= 1
          /\ Replies(k) <= 1)
  /\ [](\A t \in Threads : \A i \in InReply(t) :
          stack[t][i].loc \in Owners(stack[t][i].k))
  /\ [][Len(wire') > Len(wire) /\ wire'[Len(wire')].type = "reply" =>
          \E t \in Threads :
            /\ AtPc(t, "reply_write") /\ TranspWriter = t
            /\ Top(t).k = wire'[Len(wire')].k
            /\ Top(t).loc \in Owners(Top(t).k)]_vars

\* A worker is writing the reply of a hover call from the ReplyOnce that
\* ClangdServer's task owns; the objects it was moved from, in onCall, in the
\* lambda of bind and in onHover, are gone and nothing was written for them.
C27_Witness ==
  \E w \in Workers :
    /\ AtPc(w, "reply_write") /\ Top(w).loc = "engine"
    /\ Owners(Top(w).k) = {"engine"}
    /\ \A l \in Locs \ {"engine"} : ~Obj(Top(w).k, l).live
    /\ Replies(Top(w).k) = 0
    /\ "onCall" \notin calls[Top(w).k].ctx
\* ClangdServer did with the callback of call k what it is assumed to do:
\* it did not invoke it twice, and did not destroy it uninvoked.
InvokedAsAssumed(k) ==
  /\ calls[k].taskInv <= 1
  /\ ~(calls[k].task = "ended" /\ calls[k].taskInv = 0)
\* Nothing is left to do for call k: no thread has a frame of it, its task,
\* if it had one, is over, and its continuation, if it had one, was invoked.
Finished(k) ==
  /\ calls[k].gate = "handler"
  /\ Reaped(k)
  /\ calls[k].task \in {"none", "ended"}
  /\ \/ calls[k].cont = "none"
     \/ calls[k].cont \in {"claimed", "evicted"} /\ calls[k].contInv = 1
  /\ \A t \in Threads : \A i \in 1..Len(stack[t]) : stack[t][i].k /= k

\* C28: as long as ClangdServer invokes the callback of a call once, no
\* ~ReplyOnce of that call finds a request that nobody replied to ("must
\* reply to all calls!"), no operator() of it finds Replied already set
\* ("must reply to each call only once!"), and when its handler, its task
\* and its continuation are through it has exactly one reply on the wire.
C28_HandlersReplyOnce ==
  /\ [](\A k \in Calls :
          InvokedAsAssumed(k) =>
            /\ \A t \in Threads : \A i \in 1..Len(stack[t]) :
                 stack[t][i].k = k => stack[t][i].res /= ServerFailedToReply
            /\ \A i \in RepliesTo(k) : wire[i].res /= ServerFailedToReply
            /\ (Finished(k) => Replies(k) = 1))
  /\ [][\A t \in Threads :
          (/\ AtPc(t, "reply") /\ stack'[t] /= stack[t]
           /\ Obj(Top(t).k, Top(t).loc).Replied)
            => ~InvokedAsAssumed(Top(t).k)]_vars

\* A command whose Action applied an edit from a worker: the client answered
\* workspace/applyEdit, the continuation replied to the command, and with
\* that the command has its one reply.
C28_Witness ==
  \E k \in Calls :
    /\ calls[k].cmd = "applyTweak" /\ calls[k].taskInv = 1
    /\ calls[k].cont = "claimed"
    /\ Finished(k) /\ Replies(k) = 1
\* A shutdown call got past the gate and the decoding to onShutdown.
ShutdownHandled ==
  \E k \in Calls : /\ calls[k].method = "shutdown"
                    /\ calls[k].gate = "handler" /\ calls[k].decodes

\* C29: when Transp.loop returns an error CleanExit becomes false, when it
\* returns without one CleanExit stays true, and nothing changes it or
\* ShutdownRequestReceived afterwards; so what run returns is true exactly
\* when the loop ended without a transport error and onShutdown has run
\* before, which a shutdown call rejected by the gate does not bring about.
C29_CleanExit ==
  /\ [][/\ LoopEnds(TRUE) => ~CleanExit'
        /\ LoopEnds(FALSE) \/ LoopStops => CleanExit'
        /\ LoopEnded => UNCHANGED <<CleanExit, ShutdownRequestReceived>>]_vars
  /\ [](~LoopEnded => CleanExit)
  /\ [](AtPc("main", "run_return") =>
         /\ runReturns <=> (CleanExit /\ ShutdownHandled)
         /\ ((\E k \in Calls : calls[k].method = "shutdown")
               /\ (\A k \in Calls : calls[k].method = "shutdown"
                                       => calls[k].gate = "rejected")
               => ~runReturns))

\* run is about to return true: the loop ended without an error after a
\* shutdown call that onShutdown answered.
C29_Witness ==
  /\ AtPc("main", "run_return") /\ runReturns
  /\ \E k \in Calls : calls[k].method = "shutdown" /\ Replies(k) = 1
\* C30: the calls whose cleanup has not run have cookies that differ from
\* one another, and so the cleanup of an earlier call never erases the
\* entry of a later call with the same id: of the calls in flight under one
\* id the latest stays registered.
C30_CookiesDistinct ==
  /\ \A j \in Calls, k \in Calls :
       (j /= k /\ InFlight(j) /\ InFlight(k)) =>
         calls[j].cookie /= calls[k].cookie
  /\ \A k \in Calls : (InFlight(k) /\ ~Superseded(k)) => Registered(k)

\* An envelope arrives: Transport::loop calls onCall, which adds a call
\* record, or onNotify or onReply.
Dispatched ==
  \/ Len(calls') > Len(calls)
  \/ \E in \in NotifyInputs : onNotify(in.method, in.ok, in.id)
  \/ \E ID \in ReplyIDs \cup {JStr("0")}, o \in ReplyOutcomes : onReply(ID, o)
\* The dispatch thread is in onCall at the handler of an initialize call
\* whose params decoded.
AtInitialize ==
  /\ AtPc("main", "onCall")
  /\ calls[Top("main").k].method = "initialize"
  /\ calls[Top("main").k].params /= None
\* The encoding a client's list asks for: its first supported entry, UTF-16
\* when it has none.
Preferred(l) ==
  LET supported == {i \in 1..Len(l) : l[i] \in OffsetEncodings}
  IN IF supported = {} THEN "utf-16"
     ELSE l[CHOOSE i \in supported : \A j \in supported : i <= j]

\* C31: every envelope is dispatched under a context whose offset encoding
\* is NegotiatedOffsetEncoding, or UTF-16 when that is empty, and so is
\* every call's context; an encoding that is set, by the constructor or by
\* an earlier initialize, never changes, and one that is not set changes
\* only in onInitialize, to the first supported encoding of the client's
\* list, or to UTF-16 when the list has none.
C31_DispatchEncoding ==
  /\ [][Dispatched =>
          HandlerContext' = IF NegotiatedOffsetEncoding = None
                            THEN {"utf-16"}
                            ELSE NegotiatedOffsetEncoding]_vars
  /\ [][Len(calls') > Len(calls) =>
          calls'[Len(calls')].context = HandlerContext']_vars
  /\ [][NegotiatedOffsetEncoding /= None =>
          NegotiatedOffsetEncoding' = NegotiatedOffsetEncoding]_vars
  /\ [][NegotiatedOffsetEncoding' /= NegotiatedOffsetEncoding =>
          /\ AtInitialize
          /\ LET P == Value(calls[Top("main").k].params)
             IN /\ P.offsetEncoding /= None
                /\ NegotiatedOffsetEncoding' =
                     {Preferred(Value(P.offsetEncoding))}]_vars
  /\ [][(AtInitialize /\ onCallDispatch
           /\ NegotiatedOffsetEncoding = None
           /\ Value(calls[Top("main").k].params).offsetEncoding /= None) =>
          NegotiatedOffsetEncoding' /= None]_vars

\* No encoding was forced: the initialize call was dispatched under UTF-16.
\* It negotiated UTF-32, and the call after it was dispatched under UTF-32.
C31_Witness ==
  /\ Len(calls) >= 2
  /\ calls[1].emplaced /\ calls[1].context = {"utf-16"}
  /\ NegotiatedOffsetEncoding = {"utf-32"}
  /\ calls[2].context = {"utf-32"}

\* Ids of either type whose digits coincide.
TwinIDs == {JInt(n) : n \in {0, 1, 10, 12}} \cup
           {JStr(s) : s \in {"0", "1", "10", "12"}}

\* C32: the key of an id tells its type: two ids have the same key only
\* when they are the same in type and value.  So a $/cancelRequest invokes
\* the Canceler only of a call whose id has the type and the value of the
\* id it names, never that of a call whose id is the same digits in the
\* other type; and when a call is registered under the id it names, the
\* entry it finds is that call's and that call's Canceler is invoked.
C32_KeysTellTypes ==
  /\ [](\A a \in TwinIDs, b \in TwinIDs :
          (to_string(a) = to_string(b)) <=> (a = b))
  /\ [][\A ID \in InboundIDs :
          CancelArrives(ID) =>
            /\ \A k \in cancelled' \ cancelled :
                 /\ calls[k].id.kind = ID.kind
                 /\ calls[k].id.n = ID.n /\ calls[k].id.s = ID.s
            /\ \A k \in Calls :
                 (calls[k].id = ID /\ Registered(k)) =>
                   /\ RequestCancelers[to_string(ID)].task = k
                   /\ k \in cancelled']_vars

\* The calls 1 and "1" are both in flight and registered; the one with the
\* integer id has been cancelled, the one with the string id has not.
C32_Witness ==
  \E j \in Calls, k \in Calls :
    /\ calls[j].id = JInt(1) /\ calls[k].id = JStr("1")
    /\ InFlight(j) /\ Registered(j) /\ j \in cancelled
    /\ InFlight(k) /\ Registered(k) /\ k \notin cancelled

\* The handler of an initialize call runs while Server has a value: the call
\* that onInitialize rejects with "server already initialized".
RejectedInitialize == AtInitialize /\ Server /\ onCallDispatch

\* C33: the step in which onInitialize rejects a call leaves
\* NegotiatedOffsetEncoding and ClangdServerOpts' WorkspaceRoot and
\* SemanticHighlighting as they were.
C33_RejectedInitializeKeepsState ==
  [][RejectedInitialize =>
       /\ NegotiatedOffsetEncoding' = NegotiatedOffsetEncoding
       /\ ClangdServerOpts'.WorkspaceRoot = ClangdServerOpts.WorkspaceRoot
       /\ ClangdServerOpts'.SemanticHighlighting =
            ClangdServerOpts.SemanticHighlighting]_vars

\* Call k is an initialize whose params do not decode.
UndecodedInitialize(k) ==
  calls[k].method = "initialize" /\ ~calls[k].decodes
\* An initialize whose params decoded came before call k.
InitializedBefore(k) ==
  \E j \in 1..(k - 1) : calls[j].method = "initialize" /\ calls[j].decodes

\* C34: an initialize whose params do not decode is answered with
\* InvalidRequest, once, and the step of onCall that finds this out leaves
\* Server, the encoding and the options as they were; such a call never
\* runs Server.emplace.  A call of another method that no decoded
\* initialize precedes is rejected by the gate and answered with
\* ServerNotInitialized, however many undecoded initialize calls came
\* first; one that a decoded initialize precedes is not rejected.
C34_UndecodedInitialize ==
  /\ [](\A k \in Calls :
          (UndecodedInitialize(k) /\ calls[k].gate /= "") =>
            /\ calls[k].gate = "handler" /\ ~calls[k].emplaced
            /\ \A i \in RepliesTo(k) : wire[i].res.code = "InvalidRequest"
            /\ "onCall" \notin calls[k].ctx => Replies(k) = 1)
  /\ [][(AtPc("main", "onCall") /\ UndecodedInitialize(Top("main").k)
           /\ onCallDispatch) =>
          UNCHANGED <<Server, negotiatedVars>>]_vars
  /\ [](\A k \in Calls :
          (calls[k].method /= "initialize" /\ calls[k].gate /= "") =>
            IF InitializedBefore(k)
            THEN calls[k].gate /= "rejected"
            ELSE /\ calls[k].gate = "rejected"
                 /\ \A i \in RepliesTo(k) :
                      wire[i].res.code = "ServerNotInitialized"
                 /\ "onCall" \notin calls[k].ctx => Replies(k) = 1)

\* An initialize that did not decode was answered with InvalidRequest, the
\* shutdown after it with ServerNotInitialized, and the initialize after
\* that, which decoded, has initialized the server.
C34_Witness ==
  /\ Len(calls) = 3
  /\ UndecodedInitialize(1)
  /\ \E i \in RepliesTo(1) : wire[i].res.code = "InvalidRequest"
  /\ calls[2].method = "shutdown"
  /\ \E i \in RepliesTo(2) : wire[i].res.code = "ServerNotInitialized"
  /\ calls[3].emplaced /\ Server /\ Replies(3) = 1

\* Thread t is in callRaw at Transp.call and the step writes the frame.
WritesCall(t) == AtPc(t, "call_write") /\ Len(wire') > Len(wire)
\* The frame of the outbound call n is on the wire.
CallWritten(n) == \E i \in 1..Len(wire) : wire[i] = CallFrame(n)

\* C35: when callRaw writes the frame of call n, bindReply has appended
\* entry n: the entry is in ReplyCallbacks unless a client reply has claimed
\* it or a later registration has evicted it.  A client reply with id n that
\* arrives when frame n is on the wire and entry n was neither evicted nor
\* claimed by an earlier reply finds the entry.  And when the registration
\* of call n evicted an entry, that continuation has been invoked, has
\* replied and is gone when frame n is written.
C35_RegisteredBeforeWritten ==
  /\ [][\A t \in Threads :
          WritesCall(t) =>
            LET k == Top(t).k
                n == Top(t).n
            IN /\ wire' = Append(wire, CallFrame(n))
               /\ calls[k].outID = n
               /\ calls[k].cont \in {"stored", "claimed", "evicted"}
               /\ (calls[k].cont = "stored") <=> (n \in PendingIDs)]_vars
  /\ [][\A ID \in OutReplyIDs :
          (CallWritten(ID.n) /\ \E o \in ReplyOutcomes : onReply(ID, o)) =>
            \A k \in Calls :
              (calls[k].outID = ID.n
                 /\ calls[k].cont \notin {"evicted", "claimed"}) =>
                /\ calls'[k].cont = "claimed"
                /\ Top("main")'.old = [id |-> ID.n, k |-> k]]_vars
  /\ [][\A t \in Threads :
          WritesCall(t) =>
            \A k \in Calls :
              calls[k].evictedBy = Top(t).n =>
                /\ calls[k].contInv = 1
                /\ ~calls[k].obj["cont"].live
                /\ Replies(k) = 1]_vars

\* The registration of call MaxReplayCallbacks evicted the oldest entry:
\* the evicted continuation's reply is on the wire, and after it the frame
\* of call MaxReplayCallbacks; the client has answered another call whose
\* frame was on the wire, and that entry was found.
C35_Witness ==
  /\ \E k \in Calls :
       /\ calls[k].evictedBy = MaxReplayCallbacks
       /\ \E i \in RepliesTo(k) :
            \E j \in (i + 1)..Len(wire) :
              wire[j] = CallFrame(MaxReplayCallbacks)
  /\ \E k \in Calls : calls[k].cont = "claimed" /\ calls[k].contInv = 1

\* The positions of the outbound call frames on the wire.
CallFrames == {i \in 1..Len(wire) : wire[i].type = "call"}
\* Thread t is in callRaw for the outbound call n, between the allocation
\* of the id and the end of Transp.call.
InCallRaw(t, n) ==
  \E i \in 1..Len(stack[t]) :
    /\ stack[t][i].pc \in {"bind_unlock", "call_lock", "call_write"}
    /\ stack[t][i].n = n
\* Thread t runs the locked block of bindReply.
RegistersOn(t) ==
  AtPc(t, "bindReply") /\ CallMutex = NoThread /\ CallMutex' = t

\* C36 as stated: the call frames are on the wire in increasing id order.
C36_FramesInIdOrder ==
  \A i \in CallFrames, j \in CallFrames :
    i < j => wire[i].id.n < wire[j].id.n

\* C36: the call frame a thread writes carries the id that bindReply
\* returned to that thread for the call, so every call frame on the wire
\* carries an allocated id; and when a thread allocates an id, the frame of
\* every id allocated before it is on the wire already or is still to be
\* written by another thread that is inside callRaw.  So the frames of
\* calls issued one after the other are in the order of allocation, and a
\* frame overtakes one whose id was allocated earlier only if the two calls
\* were in callRaw on different threads at the same time.
C36_OvertakenOnlyInCallRaw ==
  /\ [](\A i \in CallFrames :
          \E k \in Bound : wire[i].id.n = calls[k].outID)
  /\ [][\A t \in Threads :
          WritesCall(t) =>
            /\ wire'[Len(wire')].type = "call"
            /\ wire'[Len(wire')].id = JInt(Top(t).n)
            /\ calls[Top(t).k].outID = Top(t).n]_vars
  /\ [][\A t \in Threads :
          RegistersOn(t) =>
            \A k \in Bound :
              \/ CallWritten(calls[k].outID)
              \/ \E u \in Threads \ {t} : InCallRaw(u, calls[k].outID)]_vars

\* An applyFix, on the dispatch thread, and an applyTweak, on a worker,
\* were in callRaw together: the frame of call 1 is on the wire before the
\* frame of call 0.
C36_Witness ==
  /\ \E i \in CallFrames, j \in CallFrames :
       i < j /\ wire[i].id.n = 1 /\ wire[j].id.n = 0
  /\ \E k \in Calls : calls[k].cmd = "applyFix" /\ calls[k].outID \in {0, 1}
  /\ \E k \in Calls : calls[k].cmd = "applyTweak" /\ calls[k].outID \in {0, 1}

\* onNotify takes a $/cancelRequest whose params are no object or have no
\* "id".
BadCancelArrives ==
  \E in \in NotifyInputs :
    /\ in.method = "$/cancelRequest" /\ ~in.ok
    /\ onNotify(in.method, in.ok, in.id)

\* C37: a $/cancelRequest without an id in its params invokes no Canceler,
\* does not lock or change RequestCancelers, writes no frame, and leaves the
\* dispatch thread in Transp.loop, before initialization and after it.
C37_BadCancelIsDropped ==
  [][BadCancelArrives =>
       /\ UNCHANGED <<cancelled, RequestCancelers, RequestCancelersMutex,
                      NextRequestCookie, wire, calls, stack>>
       /\ AtPc("main", "loop")']_vars

\* onCancel has logged a cancellation without an id; the dispatch thread
\* is in the loop, and the hover call with id 1 is in flight, registered and
\* not cancelled.
C37_Witness ==
  /\ BadCancellation \in logged
  /\ AtPc("main", "loop")
  /\ \E k \in Calls :
       /\ calls[k].method = "textDocument/hover" /\ calls[k].id = JInt(1)
       /\ InFlight(k) /\ Registered(k) /\ k \notin cancelled
       /\ Replies(k) = 0

\* C10, the evicted id: the id of an evicted continuation is smaller than
\* the id of every entry that is pending.
C10_EvictedIsSmallest ==
  \A k \in Calls :
    calls[k].cont = "evicted" =>
      \A i \in 1..Len(ReplyCallbacks) :
        calls[k].outID < ReplyCallbacks[i].id

\* C24, the order of the ids: a registration, on whichever thread, returns
\* an id larger than the ids returned before it.
C24_IdsInRegistrationOrder ==
  [][\A t \in Threads : RegistersOn(t) => NextCallID' > NextCallID]_vars

\* C38: the ids of the entries of ReplyCallbacks increase strictly from
\* the front to the back, so no two entries have the same id and a scan
\* from the front finds at most one entry for an id.
C38_RegistryInIdOrder ==
  \A i \in 1..(Len(ReplyCallbacks) - 1) :
    ReplyCallbacks[i].id < ReplyCallbacks[i + 1].id
====
